---- MODULE Spec2Model ----
(***************************************************************************)
(* VTT-voice2text: the capture/segmentation engine (audio_engine.py), the  *)
(* text injector (injector.py) and the dictation controller (main.py).     *)
(*                                                                         *)
(* Threads: "ui" is the Qt main thread (queued signal handlers and the     *)
(* tray menu), "hk" is the thread on which the keyboard library runs the   *)
(* hotkey callbacks, the capture callback runs on the audio thread, and    *)
(* every TranscriptionWorker and the ModelLoaderWorker is a thread of its  *)
(* own.  Time is in milliseconds, audio in samples.                        *)
(***************************************************************************)
EXTENDS Integers, Sequences, FiniteSets, TLC

\* ------------------------------------------------------------------ constants
sample_rate == 16000
silence_threshold_ms == 1000
min_speech_duration_ms == 250
vad_chunk_size == 512
blocksize == 2048

\* int(config.min_speech_duration_ms * self._sample_rate / 1000)
min_samples == (min_speech_duration_ms * sample_rate) \div 1000

\* duration of one VAD frame and of one capture block, in ms
FrameMs == (vad_chunk_size * 1000) \div sample_rate
HalfFrame == vad_chunk_size \div 2

\* ------------------------------------------------------------------ bounds
MaxFrames == 8
MaxSessions == 2
MaxNow == 2000
MaxSpeechRun == 40
MaxSilenceRun == 40
MaxGap == 2
MaxEvents == 3
\* calls of the injector in its own runs
MaxCalls == 2
\* in the application runs the first LeadFrames frames of a stream are speech,
\* classified at one instant
LeadFrames == 6
\* utterances the stream of a dictation session delivers
MaxUtterances == 3

None == -1
Threads == {"ui", "hk"}

VARIABLES
    \* AudioEngine
    is_listening, stream, audio_buffer, is_speaking, silence_start_time,
    pending_samples, lock, on_audio_chunk,
    \* the audio subsystem and the clock
    streams, nsessions, nframes, now, cb_pc, cb_stream,
    \* control threads: position, the handler that called start()/stop(),
    \* the return point of a directly delivered signal, the handler argument
    pc, ctx, ret, arg,
    \* VTTApplication
    state, models_loaded, queue, workers, nworkers, loader,
    \* TextInjector
    is_typing, abort_flag, inj_text, typed,
    \* the injector's callers: each thread's call (text, its number w, the
    \* value returned); the characters inject typed since abort() was called
    inj_call, after_abort,
    \* what the step just taken did: the buffer _emit_audio_chunk finalized and
    \* what became of it, the frame classified; and the number of chunks handed
    \* to on_audio_chunk so far
    last_final, last_frame, nhanded,
    \* the transcriptions outstanding when a panic was issued in TRANSCRIBING
    aborted,
    \* the samples the callback appended to the pending samples since the
    \* stream was opened
    nsamples,
    \* the frames of the utterances handed to on_audio_chunk so far
    emitted,
    \* the utterances the capture callback handed over with is_listening
    \* clear, since stop() last cleared it
    strays,
    \* the frame stream of a scripted run, the number of user events so far
    script, nevents

engineVars == <<is_listening, stream, audio_buffer, is_speaking,
                silence_start_time, pending_samples, lock, on_audio_chunk>>
audioVars == <<streams, nsessions, nframes, now, cb_pc, cb_stream>>
threadVars == <<pc, ctx, ret, arg>>
appVars == <<state, models_loaded, queue, workers, nworkers, loader>>
injVars == <<is_typing, abort_flag, inj_text, typed, inj_call, after_abort>>
histVars == <<last_final, last_frame, nhanded, aborted, nsamples, emitted, strays>>
vars == <<engineVars, audioVars, threadVars, appVars, injVars, histVars, script,
          nevents>>

\* ------------------------------------------------------------------ samples
\* _pending_samples is a run of samples; each piece records the stream (session)
\* that delivered it and how many samples it holds.
RECURSIVE PendLen(_)
PendLen(p) == IF p = <<>> THEN 0 ELSE Head(p).n + PendLen(Tail(p))

\* np.concatenate([self._pending_samples, audio])
PendAppend(p, s, n) ==
    IF n = 0 THEN p
    ELSE IF p # <<>> /\ p[Len(p)].s = s
         THEN [p EXCEPT ![Len(p)].n = @ + n]
         ELSE Append(p, [s |-> s, n |-> n])

\* self._pending_samples[:n] : the sessions of the first n samples
RECURSIVE PendHeadSrc(_, _)
PendHeadSrc(p, n) ==
    IF n <= 0 \/ p = <<>> THEN {}
    ELSE {Head(p).s} \cup PendHeadSrc(Tail(p), n - Head(p).n)

\* self._pending_samples[n:]
RECURSIVE PendDrop(_, _)
PendDrop(p, n) ==
    IF n <= 0 \/ p = <<>> THEN p
    ELSE IF Head(p).n <= n THEN PendDrop(Tail(p), n - Head(p).n)
         ELSE <<[Head(p) EXCEPT !.n = @ - n]>> \o Tail(p)

\* self._pending_samples[self._vad_chunk_size:], what the callback keeps once
\* it has sliced a frame off
Remainder(p) == PendDrop(p, vad_chunk_size)

\* len(np.concatenate(list(self._audio_buffer))): every buffered frame is a
\* slice of vad_chunk_size samples
Samples(buf) == vad_chunk_size * Len(buf)

\* ------------------------------------------------------------------ AudioEngine
TooShortNever(chunk) == FALSE
\* if len(audio_chunk) < min_samples: return
TooShort(chunk) == Samples(chunk) < min_samples

emit_audio_chunkKeepBuffer(buf, spk, sil) ==
    IF Len(buf) = 0
    THEN [buf |-> buf, spk |-> spk, sil |-> sil, out |-> "empty", chunk |-> <<>>]
    ELSE [buf |-> buf, spk |-> spk, sil |-> None, chunk |-> buf,
          out |-> IF TooShort(buf) THEN "short"
                  ELSE IF on_audio_chunk = "none" THEN "nocb" ELSE "handed"]

\* _emit_audio_chunk as a function of the segmentation state: the new state,
\* the chunk and what happened to it ("empty": nothing buffered, "short":
\* dropped by the minimum-duration check, "nocb": no callback set, "handed":
\* passed to on_audio_chunk).
emit_audio_chunk(buf, spk, sil) ==
    IF Len(buf) = 0
    THEN [buf |-> buf, spk |-> spk, sil |-> sil, out |-> "empty", chunk |-> <<>>]
    ELSE [buf |-> <<>>, spk |-> FALSE, sil |-> None, chunk |-> buf,
          out |-> IF TooShort(buf) THEN "short"
                  ELSE IF on_audio_chunk = "none" THEN "nocb" ELSE "handed"]

\* silence_duration >= self._silence_threshold
SilenceReached(t, sil) == t - sil >= silence_threshold_ms

HysteresisNoClear(buf, spk, sil, frame, is_speech, t) ==
    IF is_speech
    THEN [buf |-> Append(buf, frame), spk |-> TRUE, sil |-> sil,
          out |-> "none", chunk |-> <<>>]
    ELSE IF spk
    THEN IF sil = None
         THEN [buf |-> Append(buf, frame), spk |-> spk, sil |-> t,
               out |-> "none", chunk |-> <<>>]
         ELSE IF SilenceReached(t, sil)
              THEN emit_audio_chunk(Append(buf, frame), spk, sil)
              ELSE [buf |-> Append(buf, frame), spk |-> spk, sil |-> sil,
                    out |-> "none", chunk |-> <<>>]
    ELSE [buf |-> buf, spk |-> spk, sil |-> sil, out |-> "none", chunk |-> <<>>]

HysteresisEmitBefore(buf, spk, sil, frame, is_speech, t) ==
    IF is_speech
    THEN [buf |-> Append(buf, frame), spk |-> TRUE, sil |-> None,
          out |-> "none", chunk |-> <<>>]
    ELSE IF spk
    THEN IF sil = None
         THEN [buf |-> Append(buf, frame), spk |-> spk, sil |-> t,
               out |-> "none", chunk |-> <<>>]
         ELSE IF SilenceReached(t, sil)
              THEN emit_audio_chunk(buf, spk, sil)
              ELSE [buf |-> Append(buf, frame), spk |-> spk, sil |-> sil,
                    out |-> "none", chunk |-> <<>>]
    ELSE [buf |-> buf, spk |-> spk, sil |-> sil, out |-> "none", chunk |-> <<>>]

HysteresisBufferIdle(buf, spk, sil, frame, is_speech, t) ==
    IF is_speech
    THEN [buf |-> Append(buf, frame), spk |-> TRUE, sil |-> None,
          out |-> "none", chunk |-> <<>>]
    ELSE IF spk
    THEN IF sil = None
         THEN [buf |-> Append(buf, frame), spk |-> spk, sil |-> t,
               out |-> "none", chunk |-> <<>>]
         ELSE IF SilenceReached(t, sil)
              THEN emit_audio_chunk(Append(buf, frame), spk, sil)
              ELSE [buf |-> Append(buf, frame), spk |-> spk, sil |-> sil,
                    out |-> "none", chunk |-> <<>>]
    ELSE [buf |-> Append(buf, frame), spk |-> spk, sil |-> sil, out |-> "none",
          chunk |-> <<>>]

HysteresisSkipSilence(buf, spk, sil, frame, is_speech, t) ==
    IF is_speech
    THEN [buf |-> Append(buf, frame), spk |-> TRUE, sil |-> None,
          out |-> "none", chunk |-> <<>>]
    ELSE IF spk
    THEN IF sil = None
         THEN [buf |-> buf, spk |-> spk, sil |-> t, out |-> "none", chunk |-> <<>>]
         ELSE IF SilenceReached(t, sil)
              THEN emit_audio_chunk(Append(buf, frame), spk, sil)
              ELSE [buf |-> Append(buf, frame), spk |-> spk, sil |-> sil,
                    out |-> "none", chunk |-> <<>>]
    ELSE [buf |-> buf, spk |-> spk, sil |-> sil, out |-> "none", chunk |-> <<>>]

\* the body of "with self._lock" in _audio_callback for one classified frame,
\* t being the value time.time() returns
Hysteresis(buf, spk, sil, frame, is_speech, t) ==
    IF is_speech
    THEN [buf |-> Append(buf, frame), spk |-> TRUE, sil |-> None,
          out |-> "none", chunk |-> <<>>]
    ELSE IF spk
    THEN IF sil = None
         THEN [buf |-> Append(buf, frame), spk |-> spk, sil |-> t,
               out |-> "none", chunk |-> <<>>]
         ELSE IF SilenceReached(t, sil)
              THEN emit_audio_chunk(Append(buf, frame), spk, sil)
              ELSE [buf |-> Append(buf, frame), spk |-> spk, sil |-> sil,
                    out |-> "none", chunk |-> <<>>]
    ELSE [buf |-> buf, spk |-> spk, sil |-> sil, out |-> "none", chunk |-> <<>>]

NoEvent == [ev |-> "none", audio |-> <<>>, text |-> <<>>, w |-> 0, ok |-> FALSE,
            via |-> "none"]
NoFrame == [k |-> 0, src |-> {}, sp |-> FALSE, vad |-> "none"]
NoFinal == [u |-> <<>>, out |-> "none", epoch |-> 0, by |-> "none"]

\* a step that neither classifies a frame nor finalizes a buffer
Calm ==
    last_final' = NoFinal /\ last_frame' = NoFrame /\ UNCHANGED <<nhanded, aborted, emitted>>
\* and that does not clear is_listening
Still == Calm /\ UNCHANGED strays
\* and that neither takes a block nor opens a stream
Quiet == Still /\ UNCHANGED nsamples

\* the record of a finalization in the history: the chunk, its outcome, the
\* number of streams opened so far and the thread that finalized it
Logged(t, r) == IF r.out = "empty" \/ r.out = "none" THEN NoFinal
                ELSE [u |-> r.chunk, out |-> r.out, epoch |-> nsessions, by |-> t]
Counted(r) == IF r.out = "handed" THEN nhanded + 1 ELSE nhanded
\* the frames of a chunk, and the frames handed over once r is
Frames(chunk) == {chunk[i] : i \in 1..Len(chunk)}
Emitted(r) == IF r.out = "handed" THEN emitted \cup Frames(r.chunk) ELSE emitted

\* self.on_audio_chunk(audio_chunk) called on thread t: VTTApplication.
\* _on_audio_chunk emits audio_chunk_ready, which Qt delivers by a direct
\* call when emitted on the receiver's thread ("ui") and through the event
\* queue of the main thread otherwise; the test callback only takes the chunk.
Delivery(t, r) ==
    IF r.out # "handed" \/ on_audio_chunk # "app" THEN "none"
    ELSE IF t = "ui" THEN "direct" ELSE "queued"

\* the audio_chunk_ready signal with its argument; via records what finalized
\* the chunk: the silence threshold in the callback ("silence") or a stop()
\* called by the handler named ("toggle", "panic")
ChunkEvent(chunk, via) == [ev |-> "chunk", audio |-> chunk, text |-> <<>>, w |-> 0,
                           ok |-> FALSE, via |-> via]


WithLockAlways == TRUE
\* "with self._lock:" is entered: no other thread holds the engine lock
WithLock == lock = "free"

\* a control thread leaves its handler: back to "idle", or on to label l
Finish(t, l) ==
    /\ pc' = [pc EXCEPT ![t] = l]
    /\ ctx' = IF l = "idle" THEN [ctx EXCEPT ![t] = "none"] ELSE ctx

\* where stop() returns to: _toggle_listening line 668, _panic_stop line 687,
\* or the caller of the engine's own test
AfterStop(t) ==
    IF ctx[t] = "toggle" THEN "tg_668"
    ELSE IF ctx[t] = "panic" THEN "pn_687" ELSE "idle"

\* start(): if self.is_listening: return True
StartCheck(t) ==
    /\ pc[t] = "st_221"
    /\ IF is_listening THEN Finish(t, "idle")
       ELSE pc' = [pc EXCEPT ![t] = "st_226"] /\ ctx' = ctx
    /\ UNCHANGED <<engineVars, audioVars, ret, arg, appVars, injVars, script, nevents>>
    /\ Quiet

StartClearKeepPending(t) ==
    /\ pc[t] = "st_226"
    /\ WithLock
    /\ audio_buffer' = <<>>
    /\ is_speaking' = FALSE
    /\ silence_start_time' = None
    /\ pc' = [pc EXCEPT ![t] = "st_237"]
    /\ UNCHANGED <<is_listening, stream, lock, on_audio_chunk, pending_samples,
                   audioVars, ctx, ret, arg, appVars, injVars, script, nevents>>
    /\ Quiet

\* start(): with self._lock: clear buffer, state, timer and pending samples
StartClear(t) ==
    /\ pc[t] = "st_226"
    /\ WithLock
    /\ audio_buffer' = <<>>
    /\ is_speaking' = FALSE
    /\ silence_start_time' = None
    /\ pending_samples' = <<>>
    /\ pc' = [pc EXCEPT ![t] = "st_237"]
    /\ UNCHANGED <<is_listening, stream, lock, on_audio_chunk, audioVars, ctx, ret, arg,
                   appVars, injVars, script, nevents>>
    /\ Quiet

\* start(): sd.InputStream(...), self._stream.start(), self.is_listening = True
StartOpen(t) ==
    /\ pc[t] = "st_237"
    /\ nsessions' = nsessions + 1
    /\ stream' = nsessions + 1
    /\ streams' = streams \cup {nsessions + 1}
    /\ nframes' = 0
    /\ is_listening' = TRUE
    /\ Finish(t, "idle")
    /\ UNCHANGED <<audio_buffer, is_speaking, silence_start_time, pending_samples, lock,
                   on_audio_chunk, now, cb_pc, cb_stream, ret, arg, appVars, injVars,
                   script, nevents>>
    /\ Calm /\ nsamples' = 0 /\ strays' = 0

\* start(): opening the stream raises; except: return False
StartFail(t) ==
    /\ pc[t] = "st_237"
    /\ Finish(t, "idle")
    /\ UNCHANGED <<engineVars, audioVars, ret, arg, appVars, injVars, script, nevents>>
    /\ Quiet

\* stop(): if not self.is_listening: return; self.is_listening = False
StopCheck(t) ==
    /\ pc[t] = "sp_261"
    /\ IF ~is_listening
       THEN Finish(t, AfterStop(t)) /\ UNCHANGED is_listening
       ELSE /\ is_listening' = FALSE
            /\ pc' = [pc EXCEPT ![t] = "sp_267"]
            /\ ctx' = ctx
    /\ UNCHANGED <<stream, audio_buffer, is_speaking, silence_start_time,
                   pending_samples, lock, on_audio_chunk, audioVars, ret, arg, appVars,
                   injVars, script, nevents>>
    /\ Calm /\ UNCHANGED nsamples
    /\ strays' = IF is_listening THEN 0 ELSE strays

StopFlushNever(buf, spk) == FALSE
\* if len(self._audio_buffer) > 0 and self._is_speaking
StopFlushes(buf, spk) == Len(buf) > 0 /\ spk

\* stop(): with self._lock: emit what is buffered.  A chunk handed over on
\* the main thread is processed by _process_audio_chunk before
\* _emit_audio_chunk returns, the engine lock still held.
StopFlush(t) ==
    /\ pc[t] = "sp_267"
    /\ WithLock
    /\ LET r == IF StopFlushes(audio_buffer, is_speaking)
                THEN emit_audio_chunk(audio_buffer, is_speaking, silence_start_time)
                ELSE [buf |-> audio_buffer, spk |-> is_speaking,
                      sil |-> silence_start_time, out |-> "none", chunk |-> <<>>]
           d == Delivery(t, r)
       IN /\ audio_buffer' = r.buf
          /\ is_speaking' = r.spk
          /\ silence_start_time' = r.sil
          /\ last_final' = Logged(t, r)
          /\ nhanded' = Counted(r)
          /\ emitted' = Emitted(r)
          /\ queue' = IF d = "queued" THEN Append(queue, ChunkEvent(r.chunk, ctx[t]))
                      ELSE queue
          /\ IF d = "direct"
             THEN /\ pc' = [pc EXCEPT ![t] = "pc_707"]
                  /\ ret' = "sp_272"
                  /\ arg' = ChunkEvent(r.chunk, ctx[t])
                  /\ lock' = t
             ELSE /\ pc' = [pc EXCEPT ![t] = "sp_272"]
                  /\ UNCHANGED <<ret, arg, lock>>
    /\ UNCHANGED <<is_listening, stream, pending_samples, on_audio_chunk, audioVars, ctx,
                   state, models_loaded, workers, nworkers, loader, injVars, script, nevents>>
    /\ last_frame' = NoFrame
    /\ UNCHANGED <<aborted, nsamples, strays>>

\* stop(): self._stream.stop(); self._stream.close(); self._stream = None.
\* Stopping a stream waits for its running callback to return.
StopClose(t) ==
    /\ pc[t] = "sp_272"
    /\ ~(stream # 0 /\ cb_pc # "idle" /\ cb_stream = stream)
    /\ streams' = streams \ {stream}
    /\ stream' = 0
    /\ Finish(t, AfterStop(t))
    /\ UNCHANGED <<is_listening, audio_buffer, is_speaking, silence_start_time,
                   pending_samples, lock, on_audio_chunk, nsessions, nframes, now, cb_pc,
                   cb_stream, ret, arg, appVars, injVars, script, nevents>>
    /\ Quiet

CbEnterNoTest(s, n) ==
    /\ cb_pc = "idle"
    /\ s \in streams
    /\ pending_samples' = PendAppend(pending_samples, s, n)
    /\ nsamples' = nsamples + n
    /\ cb_pc' = "loop"
    /\ cb_stream' = s
    /\ UNCHANGED <<is_listening, stream, audio_buffer, is_speaking, silence_start_time,
                   lock, on_audio_chunk, streams, nsessions, nframes, now, threadVars,
                   appVars, injVars, script, nevents>>
    /\ Still

\* _audio_callback entered with a block of n samples of stream s:
\* if not self.is_listening: return; else the block is appended to the
\* pending samples
CbEnter(s, n) ==
    /\ cb_pc = "idle"
    /\ s \in streams
    /\ IF ~is_listening
       THEN UNCHANGED <<pending_samples, cb_pc, cb_stream, nsamples>>
       ELSE /\ pending_samples' = PendAppend(pending_samples, s, n)
            /\ nsamples' = nsamples + n
            /\ cb_pc' = "loop"
            /\ cb_stream' = s
    /\ UNCHANGED <<is_listening, stream, audio_buffer, is_speaking, silence_start_time,
                   lock, on_audio_chunk, streams, nsessions, nframes, now, threadVars,
                   appVars, injVars, script, nevents>>
    /\ Still

\* what the classifier does with a frame: the probability is above the
\* threshold ("speech"), it is not ("silence"), or the model raises ("error")
VadOutcomes == {"speech", "silence", "error"}

check_voice_activityErrorIsSpeech(v) == v # "silence"
\* _check_voice_activity: return speech_prob > self._vad_threshold, and
\* except Exception: return False
check_voice_activity(v) == v = "speech"

\* the outcome of the classifier for a frame the script marks as speech or not
Vad(b) == IF b THEN "speech" ELSE "silence"

\* one turn of "while len(self._pending_samples) >= self._vad_chunk_size":
\* slice a frame, classify it (outcome v), and run the locked hysteresis step
\* at time now + d
CbFrame(v, d) ==
    /\ cb_pc = "loop"
    /\ PendLen(pending_samples) >= vad_chunk_size
    /\ WithLock
    /\ LET frame == [k |-> nframes + 1,
                     src |-> PendHeadSrc(pending_samples, vad_chunk_size)]
           sp == check_voice_activity(v)
           r == Hysteresis(audio_buffer, is_speaking, silence_start_time,
                           frame, sp, now + d)
       IN /\ audio_buffer' = r.buf
          /\ is_speaking' = r.spk
          /\ silence_start_time' = r.sil
          /\ last_final' = Logged("cb", r)
          /\ nhanded' = Counted(r)
          /\ emitted' = Emitted(r)
          /\ strays' = IF r.out = "handed" /\ ~is_listening THEN strays + 1 ELSE strays
          /\ queue' = IF Delivery("cb", r) = "queued"
                      THEN Append(queue, ChunkEvent(r.chunk, "silence")) ELSE queue
          /\ last_frame' = [k |-> frame.k, src |-> frame.src, sp |-> sp, vad |-> v]
    /\ pending_samples' = Remainder(pending_samples)
    /\ nframes' = nframes + 1
    /\ now' = now + d
    /\ UNCHANGED <<is_listening, stream, lock, on_audio_chunk, streams, nsessions,
                   cb_pc, cb_stream, threadVars, state, models_loaded, workers,
                   nworkers, loader, injVars, script, nevents, aborted,
                   nsamples>>

\* the while loop ends: fewer than vad_chunk_size samples are pending
CbReturn ==
    /\ cb_pc = "loop"
    /\ PendLen(pending_samples) < vad_chunk_size
    /\ cb_pc' = "idle"
    /\ cb_stream' = 0
    /\ UNCHANGED <<engineVars, streams, nsessions, nframes, now, threadVars,
                   appVars, injVars, script, nevents>>
    /\ Quiet

\* ------------------------------------------------------------------ TextInjector
\* text.strip() on a sequence of characters
RECURSIVE LStrip(_)
LStrip(x) == IF x # <<>> /\ Head(x) = " " THEN LStrip(Tail(x)) ELSE x
RECURSIVE RStrip(_)
RStrip(x) == IF x # <<>> /\ x[Len(x)] = " " THEN RStrip(SubSeq(x, 1, Len(x) - 1)) ELSE x
Strip(x) == RStrip(LStrip(x))

\* what inject() sets out to type: text.strip() + " ", nothing for blank text
ToType(text) == IF Strip(text) = <<>> THEN <<>> ELSE Strip(text) \o <<" ">>

\* ------------------------------------------------------------------ VTTApplication
TextEvent(w, text) == [ev |-> "text", audio |-> <<>>, text |-> text, w |-> w, ok |-> FALSE,
                       via |-> "none"]
LoadedEvent(ok) == [ev |-> "loaded", audio |-> <<>>, text |-> <<>>, w |-> 0, ok |-> ok,
                    via |-> "none"]

\* what transcriber.transcribe can return: "" (nothing recognized, or an
\* error mapped to ""), blank text, or words
Transcripts == {<<>>, <<" ">>, <<"a">>}

\* ModelLoaderWorker.run: model_loaded.emit(ok), queued to the main thread
LoaderRun(ok) ==
    /\ loader = "running"
    /\ loader' = "done"
    /\ queue' = Append(queue, LoadedEvent(ok))
    /\ UNCHANGED <<engineVars, audioVars, threadVars, state, models_loaded,
                   workers, nworkers, injVars>>
    /\ Quiet /\ UNCHANGED <<script, nevents>>

\* the Qt event loop takes the next queued signal and calls its slot
UiDispatch ==
    /\ pc["ui"] = "idle"
    /\ queue # <<>>
    /\ arg' = Head(queue)
    /\ queue' = Tail(queue)
    /\ ret' = "idle"
    /\ pc' = [pc EXCEPT !["ui"] =
                 IF Head(queue).ev = "chunk" THEN "pc_707"
                 ELSE IF Head(queue).ev = "text" THEN "tc_728" ELSE "ml_813"]
    /\ UNCHANGED <<engineVars, audioVars, ctx, state, models_loaded, workers,
                   nworkers, loader, injVars, script, nevents>>
    /\ Quiet

\* _on_models_loaded: self._models_loaded = success
ModelsLoadedSet ==
    /\ pc["ui"] = "ml_813"
    /\ models_loaded' = arg.ok
    /\ pc' = [pc EXCEPT !["ui"] = IF arg.ok THEN "ml_817" ELSE "idle"]
    /\ arg' = NoEvent
    /\ UNCHANGED <<engineVars, audioVars, ctx, ret, state, queue, workers,
                   nworkers, loader, injVars, script, nevents>>
    /\ Quiet

\* _on_models_loaded: self._set_state(AppState.STANDBY)
ModelsLoadedStandby ==
    /\ pc["ui"] = "ml_817"
    /\ state' = "standby"
    /\ pc' = [pc EXCEPT !["ui"] = "idle"]
    /\ UNCHANGED <<engineVars, audioVars, ctx, ret, arg, models_loaded, queue,
                   workers, nworkers, loader, injVars, script, nevents>>
    /\ Quiet

ToggleBeginNoGuard(t) ==
    /\ pc[t] = "idle"
    /\ pc' = [pc EXCEPT ![t] = "tg_659"]
    /\ ctx' = [ctx EXCEPT ![t] = "toggle"]
    /\ UNCHANGED <<engineVars, audioVars, ret, arg, appVars, injVars, script>>
    /\ nevents' = nevents + 1
    /\ Quiet

\* _toggle_listening called on thread t (tray menu on "ui", hotkey on "hk"):
\* if not self._models_loaded: return
ToggleBegin(t) ==
    /\ pc[t] = "idle"
    /\ IF ~models_loaded THEN UNCHANGED <<pc, ctx>>
       ELSE /\ pc' = [pc EXCEPT ![t] = "tg_659"]
            /\ ctx' = [ctx EXCEPT ![t] = "toggle"]
    /\ UNCHANGED <<engineVars, audioVars, ret, arg, appVars, injVars, script>>
    /\ nevents' = nevents + 1
    /\ Quiet

\* if self._state == AppState.STANDBY
ToggleBranch(t) ==
    /\ pc[t] = "tg_659"
    /\ pc' = [pc EXCEPT ![t] = IF state = "standby" THEN "tg_661" ELSE "tg_665"]
    /\ UNCHANGED <<engineVars, audioVars, ctx, ret, arg, appVars, injVars, script, nevents>>
    /\ Quiet

ToggleElifStops(t) ==
    /\ pc[t] = "tg_665"
    /\ IF state = "listening" \/ state = "transcribing"
       THEN pc' = [pc EXCEPT ![t] = "sp_261"] /\ ctx' = ctx
       ELSE Finish(t, "idle")
    /\ UNCHANGED <<engineVars, audioVars, ret, arg, appVars, injVars, script, nevents>>
    /\ Quiet

\* elif self._state == AppState.LISTENING: audio_engine.stop(); in any other
\* state the handler returns
ToggleElif(t) ==
    /\ pc[t] = "tg_665"
    /\ IF state = "listening" THEN pc' = [pc EXCEPT ![t] = "sp_261"] /\ ctx' = ctx
       ELSE Finish(t, "idle")
    /\ UNCHANGED <<engineVars, audioVars, ret, arg, appVars, injVars, script, nevents>>
    /\ Quiet

\* self._set_state(AppState.LISTENING); audio_engine.start()
ToggleListening(t) ==
    /\ pc[t] = "tg_661"
    /\ state' = "listening"
    /\ pc' = [pc EXCEPT ![t] = "st_221"]
    /\ UNCHANGED <<engineVars, audioVars, ctx, ret, arg, models_loaded, queue,
                   workers, nworkers, loader, injVars, script, nevents>>
    /\ Quiet

\* after audio_engine.stop(): self._set_state(AppState.STANDBY)
ToggleStandby(t) ==
    /\ pc[t] = "tg_668"
    /\ state' = "standby"
    /\ Finish(t, "idle")
    /\ UNCHANGED <<engineVars, audioVars, ret, arg, models_loaded, queue,
                   workers, nworkers, loader, injVars, script, nevents>>
    /\ Quiet

\* the transcriptions whose result has not reached _on_transcription_complete:
\* the workers still running and the results queued to the main thread
Outstanding ==
    {w.w : w \in workers} \cup
    {queue[i].w : i \in {j \in 1..Len(queue) : queue[j].ev = "text"}}

PanicBeginNoAbort(t) ==
    /\ pc[t] = "idle"
    /\ pc' = [pc EXCEPT ![t] = "sp_261"]
    /\ ctx' = [ctx EXCEPT ![t] = "panic"]
    /\ UNCHANGED <<engineVars, audioVars, ret, arg, appVars, injVars, script>>
    /\ nevents' = nevents + 1
    /\ aborted' = IF state = "transcribing" THEN aborted \cup Outstanding ELSE aborted
    /\ last_final' = NoFinal /\ last_frame' = NoFrame
    /\ UNCHANGED <<nhanded, nsamples, emitted, strays>>

\* _panic_stop on the hotkey thread: injector.abort(), then audio_engine.stop()
PanicBegin(t) ==
    /\ pc[t] = "idle"
    /\ abort_flag' = TRUE
    /\ pc' = [pc EXCEPT ![t] = "sp_261"]
    /\ ctx' = [ctx EXCEPT ![t] = "panic"]
    /\ UNCHANGED <<engineVars, audioVars, ret, arg, appVars, is_typing,
                   inj_text, typed, inj_call, after_abort, script>>
    /\ nevents' = nevents + 1
    /\ aborted' = IF state = "transcribing" THEN aborted \cup Outstanding ELSE aborted
    /\ last_final' = NoFinal /\ last_frame' = NoFrame
    /\ UNCHANGED <<nhanded, nsamples, emitted, strays>>

\* _panic_stop: self._set_state(AppState.STANDBY)
PanicStandby(t) ==
    /\ pc[t] = "pn_687"
    /\ state' = "standby"
    /\ Finish(t, "idle")
    /\ UNCHANGED <<engineVars, audioVars, ret, arg, models_loaded, queue,
                   workers, nworkers, loader, injVars, script, nevents>>
    /\ Quiet

ProcReturnKeepLock ==
    /\ pc' = [pc EXCEPT !["ui"] = ret]
    /\ ret' = "idle"
    /\ arg' = NoEvent
    /\ lock' = lock

\* _process_audio_chunk returns: to the event loop, or into stop(), whose
\* "with self._lock" block then ends
ProcReturn ==
    /\ pc' = [pc EXCEPT !["ui"] = ret]
    /\ ret' = "idle"
    /\ arg' = NoEvent
    /\ lock' = IF ret = "sp_272" THEN "free" ELSE lock

\* _process_audio_chunk: if self._state != AppState.LISTENING: return
ProcCheck ==
    /\ pc["ui"] = "pc_707"
    /\ IF state # "listening" THEN ProcReturn
       ELSE pc' = [pc EXCEPT !["ui"] = "pc_713"] /\ UNCHANGED <<ret, lock, arg>>
    /\ UNCHANGED <<is_listening, stream, audio_buffer, is_speaking,
                   silence_start_time, pending_samples, on_audio_chunk, audioVars,
                   ctx, appVars, injVars, script, nevents>>
    /\ Quiet

\* _process_audio_chunk: self._set_state(AppState.TRANSCRIBING);
\* TranscriptionWorker(audio).start()
ProcDispatch ==
    /\ pc["ui"] = "pc_713"
    /\ state' = "transcribing"
    /\ nworkers' = nworkers + 1
    /\ workers' = workers \cup {[w |-> nworkers + 1, audio |-> arg.audio]}
    /\ pc' = [pc EXCEPT !["ui"] = "pc_717"]
    /\ UNCHANGED <<is_listening, stream, audio_buffer, is_speaking,
                   silence_start_time, pending_samples, lock, on_audio_chunk, audioVars,
                   ctx, ret, arg, models_loaded, queue, loader, injVars, script, nevents>>
    /\ Quiet

ProcEndKeepLock ==
    /\ pc["ui"] = "pc_717"
    /\ pc' = [pc EXCEPT !["ui"] = ret]
    /\ ret' = "idle"
    /\ arg' = NoEvent
    /\ UNCHANGED <<engineVars, audioVars, ctx, appVars, injVars, script, nevents>>
    /\ Quiet

\* _process_audio_chunk returns after start(): the worker thread is running
\* by then
ProcEnd ==
    /\ pc["ui"] = "pc_717"
    /\ ProcReturn
    /\ UNCHANGED <<is_listening, stream, audio_buffer, is_speaking,
                   silence_start_time, pending_samples, on_audio_chunk, audioVars,
                   ctx, appVars, injVars, script, nevents>>
    /\ Quiet

WorkerRunNoEmit(w, text) ==
    /\ w \in workers
    /\ workers' = workers \ {w}
    /\ UNCHANGED <<engineVars, audioVars, threadVars, state, models_loaded, queue,
                   nworkers, loader, injVars, script, nevents>>
    /\ Quiet

\* TranscriptionWorker.run: transcribe, then transcription_complete.emit(text),
\* queued to the main thread
WorkerRun(w, text) ==
    /\ w \in workers
    /\ workers' = workers \ {w}
    /\ queue' = Append(queue, TextEvent(w.w, text))
    /\ UNCHANGED <<engineVars, audioVars, threadVars, state, models_loaded,
                   nworkers, loader, injVars, script, nevents>>
    /\ Quiet

\* ------------------------------------------------------------------ TextInjector.inject
\* stale: abort_flag was set when the call, still executing, was accepted
NoCall == [text |-> <<>>, w |-> 0, rv |-> "none", stale |-> FALSE]

\* where inject and inject_fast return to: the caller of the injector's own
\* test, or _on_transcription_complete line 732
AfterInject(t) == IF ctx[t] = "call" THEN "idle" ELSE "tc_732"

\* a return statement of inject or inject_fast outside the try block
InjectReturn(t, rv) ==
    /\ inj_call' = [inj_call EXCEPT ![t].rv = rv]
    /\ Finish(t, AfterInject(t))

\* inject: if not text: return True
InjectEntry(t) ==
    /\ pc[t] = "in_60"
    /\ IF inj_call[t].text = <<>> THEN InjectReturn(t, "true")
       ELSE pc' = [pc EXCEPT ![t] = "in_64"] /\ UNCHANGED <<ctx, inj_call>>
    /\ UNCHANGED <<engineVars, audioVars, ret, arg, appVars, is_typing, abort_flag,
                   inj_text, typed, after_abort, script, nevents>>
    /\ Quiet

InjectAcceptAlways(t) ==
    /\ pc[t] = "in_64"
    /\ is_typing' = TRUE
    /\ abort_flag' = FALSE
    /\ after_abort' = 0
    /\ inj_text' = ToType(inj_call[t].text)
    /\ inj_call' = [inj_call EXCEPT ![t].rv =
                        IF ToType(inj_call[t].text) = <<>> THEN "true" ELSE "none",
                                    ![t].stale = abort_flag]
    /\ pc' = [pc EXCEPT ![t] =
                 IF ToType(inj_call[t].text) = <<>> THEN "in_114" ELSE "in_87"]
    /\ UNCHANGED <<engineVars, audioVars, ctx, ret, arg, appVars, typed, script, nevents>>
    /\ Quiet

InjectAcceptKeepAbort(t) ==
    /\ pc[t] = "in_64"
    /\ IF is_typing
       THEN /\ InjectReturn(t, "false")
            /\ UNCHANGED <<is_typing, abort_flag, inj_text, after_abort>>
       ELSE /\ is_typing' = TRUE
            /\ abort_flag' = abort_flag
            /\ after_abort' = 0
            /\ inj_text' = ToType(inj_call[t].text)
            /\ inj_call' = [inj_call EXCEPT ![t].rv =
                                IF ToType(inj_call[t].text) = <<>> THEN "true" ELSE "none",
                                            ![t].stale = abort_flag]
            /\ pc' = [pc EXCEPT ![t] =
                         IF ToType(inj_call[t].text) = <<>> THEN "in_114" ELSE "in_87"]
            /\ ctx' = ctx
    /\ UNCHANGED <<engineVars, audioVars, ret, arg, appVars, typed, script, nevents>>
    /\ Quiet

\* inject: with self._lock: if self.is_typing: return False; else
\* is_typing = True, abort_flag = False; then text.strip(), return True when
\* nothing is left, and the trailing space
InjectAccept(t) ==
    /\ pc[t] = "in_64"
    /\ IF is_typing
       THEN /\ InjectReturn(t, "false")
            /\ UNCHANGED <<is_typing, abort_flag, inj_text, after_abort>>
       ELSE /\ is_typing' = TRUE
            /\ abort_flag' = FALSE
            /\ after_abort' = 0
            /\ inj_text' = ToType(inj_call[t].text)
            /\ inj_call' = [inj_call EXCEPT ![t].rv =
                                IF ToType(inj_call[t].text) = <<>> THEN "true" ELSE "none",
                                            ![t].stale = abort_flag]
            /\ pc' = [pc EXCEPT ![t] =
                         IF ToType(inj_call[t].text) = <<>> THEN "in_114" ELSE "in_87"]
            /\ ctx' = ctx
    /\ UNCHANGED <<engineVars, audioVars, ret, arg, appVars, typed, script, nevents>>
    /\ Quiet

InjectCheckAbortNever(t) ==
    /\ pc[t] = "in_87"
    /\ IF inj_text = <<>>
       THEN /\ inj_call' = [inj_call EXCEPT ![t].rv = "true"]
            /\ pc' = [pc EXCEPT ![t] = "in_114"]
       ELSE pc' = [pc EXCEPT ![t] = "in_100"] /\ UNCHANGED inj_call
    /\ UNCHANGED <<engineVars, audioVars, ctx, ret, arg, appVars, is_typing, abort_flag,
                   inj_text, typed, after_abort, script, nevents>>
    /\ Quiet

\* inject: for char in text: if self.abort_flag: return False; the loop ends
\* when no character is left: return True
InjectCheckAbort(t) ==
    /\ pc[t] = "in_87"
    /\ IF inj_text = <<>>
       THEN /\ inj_call' = [inj_call EXCEPT ![t].rv = "true"]
            /\ pc' = [pc EXCEPT ![t] = "in_114"]
       ELSE IF abort_flag
       THEN /\ inj_call' = [inj_call EXCEPT ![t].rv = "false"]
            /\ pc' = [pc EXCEPT ![t] = "in_114"]
       ELSE pc' = [pc EXCEPT ![t] = "in_100"] /\ UNCHANGED inj_call
    /\ UNCHANGED <<engineVars, audioVars, ctx, ret, arg, appVars, is_typing, abort_flag,
                   inj_text, typed, after_abort, script, nevents>>
    /\ Quiet

\* inject: self._keyboard.type(char) (Enter and Tab pressed as keys)
InjectType(t) ==
    /\ pc[t] = "in_100"
    /\ typed' = Append(typed, [w |-> inj_call[t].w, c |-> Head(inj_text)])
    /\ inj_text' = Tail(inj_text)
    /\ after_abort' = IF abort_flag THEN after_abort + 1 ELSE after_abort
    /\ pc' = [pc EXCEPT ![t] = "in_87"]
    /\ UNCHANGED <<engineVars, audioVars, ctx, ret, arg, appVars, is_typing,
                   abort_flag, inj_call, script, nevents>>
    /\ Quiet

InjectRaiseNoFinally(t) ==
    /\ pc[t] = "in_100"
    /\ inj_call' = [inj_call EXCEPT ![t].rv = "false"]
    /\ Finish(t, AfterInject(t))
    /\ UNCHANGED <<engineVars, audioVars, ret, arg, appVars, is_typing, abort_flag,
                   inj_text, typed, after_abort, script, nevents>>
    /\ Quiet

\* inject: the keyboard controller raises; except Exception: return False
InjectRaise(t) ==
    /\ pc[t] = "in_100"
    /\ inj_call' = [inj_call EXCEPT ![t].rv = "false"]
    /\ pc' = [pc EXCEPT ![t] = "in_114"]
    /\ UNCHANGED <<engineVars, audioVars, ctx, ret, arg, appVars, is_typing, abort_flag,
                   inj_text, typed, after_abort, script, nevents>>
    /\ Quiet

\* inject: finally: with self._lock: self.is_typing = False
InjectFinally(t) ==
    /\ pc[t] = "in_114"
    /\ is_typing' = FALSE
    /\ inj_text' = <<>>
    /\ inj_call' = [inj_call EXCEPT ![t].stale = FALSE]
    /\ Finish(t, AfterInject(t))
    /\ UNCHANGED <<engineVars, audioVars, ret, arg, appVars, abort_flag,
                   typed, after_abort, script, nevents>>
    /\ Quiet

\* ------------------------------------------------------------------ TextInjector.inject_fast
\* inject_fast: if not text: return True
InjectFastEntry(t) ==
    /\ pc[t] = "if_141"
    /\ IF inj_call[t].text = <<>> THEN InjectReturn(t, "true")
       ELSE pc' = [pc EXCEPT ![t] = "if_144"] /\ UNCHANGED <<ctx, inj_call>>
    /\ UNCHANGED <<engineVars, audioVars, ret, arg, appVars, is_typing, abort_flag,
                   inj_text, typed, after_abort, script, nevents>>
    /\ Quiet

\* inject_fast: with self._lock: if self.is_typing: return False; else
\* is_typing = True, abort_flag = False; then text.strip() + " "
InjectFastAccept(t) ==
    /\ pc[t] = "if_144"
    /\ IF is_typing
       THEN /\ InjectReturn(t, "false")
            /\ UNCHANGED <<is_typing, abort_flag, inj_text, after_abort>>
       ELSE /\ is_typing' = TRUE
            /\ abort_flag' = FALSE
            /\ after_abort' = 0
            /\ inj_text' = Strip(inj_call[t].text) \o <<" ">>
            /\ inj_call' = [inj_call EXCEPT ![t].stale = abort_flag]
            /\ pc' = [pc EXCEPT ![t] = "if_156"]
            /\ ctx' = ctx
    /\ UNCHANGED <<engineVars, audioVars, ret, arg, appVars, typed, script, nevents>>
    /\ Quiet

\* inject_fast: self._keyboard.type(text); return True
InjectFastType(t) ==
    /\ pc[t] = "if_156"
    /\ typed' = typed \o [i \in 1..Len(inj_text) |-> [w |-> inj_call[t].w, c |-> inj_text[i]]]
    /\ inj_text' = <<>>
    /\ inj_call' = [inj_call EXCEPT ![t].rv = "true"]
    /\ pc' = [pc EXCEPT ![t] = "if_164"]
    /\ UNCHANGED <<engineVars, audioVars, ctx, ret, arg, appVars, is_typing,
                   abort_flag, after_abort, script, nevents>>
    /\ Quiet

\* inject_fast: the keyboard controller raises; except Exception: return False
InjectFastRaise(t) ==
    /\ pc[t] = "if_156"
    /\ inj_call' = [inj_call EXCEPT ![t].rv = "false"]
    /\ pc' = [pc EXCEPT ![t] = "if_164"]
    /\ UNCHANGED <<engineVars, audioVars, ctx, ret, arg, appVars, is_typing, abort_flag,
                   inj_text, typed, after_abort, script, nevents>>
    /\ Quiet

\* inject_fast: finally: with self._lock: self.is_typing = False
InjectFastFinally(t) ==
    /\ pc[t] = "if_164"
    /\ is_typing' = FALSE
    /\ inj_text' = <<>>
    /\ inj_call' = [inj_call EXCEPT ![t].stale = FALSE]
    /\ Finish(t, AfterInject(t))
    /\ UNCHANGED <<engineVars, audioVars, ret, arg, appVars, abort_flag,
                   typed, after_abort, script, nevents>>
    /\ Quiet

\* ------------------------------------------------------------------ VTTApplication, results
ResultBeginAlways ==
    /\ pc["ui"] = "tc_728"
    /\ pc' = [pc EXCEPT !["ui"] = "in_60"]
    /\ inj_call' = [inj_call EXCEPT !["ui"] = [text |-> arg.text, w |-> arg.w, rv |-> "none", stale |-> FALSE]]
    /\ UNCHANGED <<engineVars, audioVars, ctx, ret, arg, appVars, is_typing, abort_flag,
                   inj_text, typed, after_abort, script, nevents>>
    /\ Quiet

\* _on_transcription_complete: if text: injector.inject(text, True)
ResultBegin ==
    /\ pc["ui"] = "tc_728"
    /\ IF arg.text # <<>>
       THEN /\ pc' = [pc EXCEPT !["ui"] = "in_60"]
            /\ inj_call' = [inj_call EXCEPT !["ui"] =
                                [text |-> arg.text, w |-> arg.w, rv |-> "none", stale |-> FALSE]]
       ELSE pc' = [pc EXCEPT !["ui"] = "tc_732"] /\ UNCHANGED inj_call
    /\ UNCHANGED <<engineVars, audioVars, ctx, ret, arg, appVars, is_typing, abort_flag,
                   inj_text, typed, after_abort, script, nevents>>
    /\ Quiet

\* _on_transcription_complete: if audio_engine.is_listening
ResultReadArmed ==
    /\ pc["ui"] = "tc_732"
    /\ pc' = [pc EXCEPT !["ui"] = IF is_listening THEN "tc_733" ELSE "tc_735"]
    /\ UNCHANGED <<engineVars, audioVars, ctx, ret, arg, appVars, injVars, script, nevents>>
    /\ Quiet

\* self._set_state(AppState.LISTENING) or self._set_state(AppState.STANDBY)
ResultSetState ==
    /\ pc["ui"] \in {"tc_733", "tc_735"}
    /\ state' = IF pc["ui"] = "tc_733" THEN "listening" ELSE "standby"
    /\ pc' = [pc EXCEPT !["ui"] = "idle"]
    /\ arg' = NoEvent
    /\ UNCHANGED <<engineVars, audioVars, ctx, ret, models_loaded, queue,
                   workers, nworkers, loader, injVars, script, nevents>>
    /\ Quiet

\* ------------------------------------------------------------------ the engine's own test
\* audio_engine.start() and audio_engine.stop() called by the test driver
DrvStart ==
    /\ pc["ui"] = "idle"
    /\ pc' = [pc EXCEPT !["ui"] = "st_221"]
    /\ ctx' = [ctx EXCEPT !["ui"] = "drv"]
    /\ UNCHANGED <<engineVars, audioVars, ret, arg, appVars, injVars, script, nevents>>
    /\ Quiet

DrvStop ==
    /\ pc["ui"] = "idle"
    /\ pc' = [pc EXCEPT !["ui"] = "sp_261"]
    /\ ctx' = [ctx EXCEPT !["ui"] = "drv"]
    /\ UNCHANGED <<engineVars, audioVars, ret, arg, appVars, injVars, script, nevents>>
    /\ Quiet

\* injector.inject(text), injector.inject_fast(text) and injector.abort()
\* called by the test driver; calls are numbered
DrvInject(t, text) ==
    /\ pc[t] = "idle"
    /\ nevents' = nevents + 1
    /\ inj_call' = [inj_call EXCEPT ![t] = [text |-> text, w |-> nevents + 1, rv |-> "none", stale |-> FALSE]]
    /\ pc' = [pc EXCEPT ![t] = "in_60"]
    /\ ctx' = [ctx EXCEPT ![t] = "call"]
    /\ UNCHANGED <<engineVars, audioVars, ret, arg, appVars, is_typing, abort_flag,
                   inj_text, typed, after_abort, script>>
    /\ Quiet

DrvInjectFast(t, text) ==
    /\ pc[t] = "idle"
    /\ nevents' = nevents + 1
    /\ inj_call' = [inj_call EXCEPT ![t] = [text |-> text, w |-> nevents + 1, rv |-> "none", stale |-> FALSE]]
    /\ pc' = [pc EXCEPT ![t] = "if_141"]
    /\ ctx' = [ctx EXCEPT ![t] = "call"]
    /\ UNCHANGED <<engineVars, audioVars, ret, arg, appVars, is_typing, abort_flag,
                   inj_text, typed, after_abort, script>>
    /\ Quiet

\* abort(): self.abort_flag = True
DrvAbort ==
    /\ abort_flag' = TRUE
    /\ UNCHANGED <<engineVars, audioVars, threadVars, appVars, is_typing, inj_text,
                   typed, inj_call, after_abort, script, nevents>>
    /\ Quiet

\* the state after AudioEngine(), TextInjector() and VTTApplication() are
\* constructed; cb names what on_audio_chunk is set to
Constructed(cb) ==
    /\ is_listening = FALSE /\ stream = 0 /\ audio_buffer = <<>>
    /\ is_speaking = FALSE /\ silence_start_time = None
    /\ pending_samples = <<>> /\ lock = "free" /\ on_audio_chunk = cb
    /\ streams = {} /\ nsessions = 0 /\ nframes = 0 /\ now = 0
    /\ cb_pc = "idle" /\ cb_stream = 0
    /\ pc = [t \in Threads |-> "idle"] /\ ctx = [t \in Threads |-> "none"]
    /\ ret = "idle" /\ arg = NoEvent
    /\ state = "loading" /\ models_loaded = FALSE /\ queue = <<>>
    /\ workers = {} /\ nworkers = 0 /\ loader = "idle"
    /\ is_typing = FALSE /\ abort_flag = FALSE /\ inj_text = <<>> /\ typed = <<>>
    /\ inj_call = [t \in Threads |-> NoCall] /\ after_abort = 0
    /\ last_final = NoFinal /\ nhanded = 0 /\ last_frame = NoFrame
    /\ aborted = {} /\ nsamples = 0 /\ emitted = {} /\ strays = 0
    /\ nevents = 0

NoScript == [N |-> 0, G |-> 0, R |-> 0, M |-> 0]

\* elapsed time between two reads of the clock by the callback
Ticks == {0, silence_threshold_ms \div 2}
BlockSizes == {HalfFrame, blocksize}

InitEngine == Constructed("test") /\ script = NoScript

NextEngine ==
    \/ DrvStart
    \/ DrvStop
    \/ StartCheck("ui")
    \/ StartClear("ui")
    \/ (nsessions < MaxSessions /\ StartOpen("ui"))
    \/ StartFail("ui")
    \/ StopCheck("ui")
    \/ StopFlush("ui")
    \/ StopClose("ui")
    \/ \E s \in streams, n \in BlockSizes :
         /\ vad_chunk_size * nframes + PendLen(pending_samples) + n
                <= vad_chunk_size * MaxFrames
         /\ CbEnter(s, n)
    \/ \E v \in VadOutcomes, d \in Ticks : now + d <= MaxNow /\ CbFrame(v, d)
    \/ CbReturn

SpecEngine == InitEngine /\ [][NextEngine]_vars

\* ------------------------------------------------------------------ the injector alone
\* texts handed to the injector: empty, blank, one word, padded
InjectTexts == {<<>>, <<" ">>, <<"a", "b">>, <<" ", "c">>}

InitInject == Constructed("test") /\ script = NoScript

NextInject ==
    \/ \E t \in Threads, text \in InjectTexts : (nevents < MaxCalls /\ DrvInject(t, text))
    \/ \E t \in Threads, text \in InjectTexts : (nevents < MaxCalls /\ DrvInjectFast(t, text))
    \/ DrvAbort
    \/ \E t \in Threads : InjectEntry(t)
    \/ \E t \in Threads : InjectAccept(t)
    \/ \E t \in Threads : InjectCheckAbort(t)
    \/ \E t \in Threads : InjectType(t)
    \/ \E t \in Threads : InjectRaise(t)
    \/ \E t \in Threads : InjectFinally(t)
    \/ \E t \in Threads : InjectFastEntry(t)
    \/ \E t \in Threads : InjectFastAccept(t)
    \/ \E t \in Threads : InjectFastType(t)
    \/ \E t \in Threads : InjectFastRaise(t)
    \/ \E t \in Threads : InjectFastFinally(t)

SpecInject == InitInject /\ [][NextInject]_vars

\* ------------------------------------------------------------------ the application
\* VTTApplication.run(): on_audio_chunk is _on_audio_chunk, the state is
\* LOADING and the ModelLoaderWorker is started
Init ==
    /\ is_listening = FALSE /\ stream = 0 /\ audio_buffer = <<>>
    /\ is_speaking = FALSE /\ silence_start_time = None
    /\ pending_samples = <<>> /\ lock = "free" /\ on_audio_chunk = "app"
    /\ streams = {} /\ nsessions = 0 /\ nframes = 0 /\ now = 0
    /\ cb_pc = "idle" /\ cb_stream = 0
    /\ pc = [t \in Threads |-> "idle"] /\ ctx = [t \in Threads |-> "none"]
    /\ ret = "idle" /\ arg = NoEvent
    /\ state = "loading" /\ models_loaded = FALSE /\ queue = <<>>
    /\ workers = {} /\ nworkers = 0 /\ loader = "running"
    /\ is_typing = FALSE /\ abort_flag = FALSE /\ inj_text = <<>> /\ typed = <<>>
    /\ inj_call = [t \in Threads |-> NoCall] /\ after_abort = 0
    /\ last_final = NoFinal /\ nhanded = 0 /\ last_frame = NoFrame
    /\ aborted = {} /\ nsamples = 0 /\ emitted = {} /\ strays = 0
    /\ script = NoScript /\ nevents = 0

Next ==
    \/ \E ok \in BOOLEAN : LoaderRun(ok)
    \/ UiDispatch
    \/ ModelsLoadedSet
    \/ ModelsLoadedStandby
    \/ \E t \in Threads : (nevents < MaxEvents /\ ToggleBegin(t))
    \/ \E t \in Threads : ToggleBranch(t)
    \/ \E t \in Threads : ToggleElif(t)
    \/ \E t \in Threads : ToggleListening(t)
    \/ \E t \in Threads : ToggleStandby(t)
    \/ (nevents < MaxEvents /\ PanicBegin("hk"))
    \/ PanicStandby("hk")
    \/ \E t \in Threads : StartCheck(t)
    \/ \E t \in Threads : StartClear(t)
    \* the input device is opened exclusively: while a stream is open, and
    \* once MaxSessions streams have been opened, opening one raises
    \/ \E t \in Threads : (nsessions < MaxSessions /\ streams = {} /\ StartOpen(t))
    \/ \E t \in Threads : StartFail(t)
    \/ \E t \in Threads : StopCheck(t)
    \/ \E t \in Threads : StopFlush(t)
    \/ \E t \in Threads : StopClose(t)
    \/ \E s \in streams :
         /\ vad_chunk_size * nframes + PendLen(pending_samples) + blocksize
                <= vad_chunk_size * MaxFrames
         /\ CbEnter(s, blocksize)
    \/ \E v \in VadOutcomes, d \in {0, silence_threshold_ms} :
         /\ now + d <= MaxNow
         /\ nframes < LeadFrames => (v = "speech" /\ d = 0)
         /\ CbFrame(v, d)
    \/ CbReturn
    \/ ProcCheck
    \/ ProcDispatch
    \/ ProcEnd
    \/ \E w \in workers, text \in Transcripts : WorkerRun(w, text)
    \/ ResultBegin
    \/ InjectEntry("ui")
    \/ InjectAccept("ui")
    \/ InjectCheckAbort("ui")
    \/ InjectType("ui")
    \/ InjectRaise("ui")
    \/ InjectFinally("ui")
    \/ ResultReadArmed
    \/ ResultSetState

Spec == Init /\ [][Next]_vars

\* ------------------------------------------------------------------ a scripted frame stream
\* script.N speech frames, script.G silence frames, script.R speech frames,
\* script.M silence frames, one frame per callback, the clock advancing one
\* frame duration per frame
ScriptLen == script.N + script.G + script.R + script.M
ScriptSpeech(k) ==
    \/ k <= script.N
    \/ (script.N + script.G < k /\ k <= script.N + script.G + script.R)

InitStream ==
    /\ Constructed("test")
    /\ \E n \in 1..MaxSpeechRun, g \in 0..MaxSilenceRun, r \in 0..MaxGap,
          m \in 0..MaxSilenceRun :
         /\ (g = 0) = (r = 0)
         /\ (r > 0) => (n <= MaxGap /\ m >= MaxSilenceRun - MaxGap)
         /\ script = [N |-> n, G |-> g, R |-> r, M |-> m]

NextStream ==
    \/ (nsessions = 0 /\ DrvStart)
    \/ StartCheck("ui")
    \/ StartClear("ui")
    \/ StartOpen("ui")
    \/ \E s \in streams : nframes < ScriptLen /\ CbEnter(s, vad_chunk_size)
    \/ CbFrame(Vad(ScriptSpeech(nframes + 1)), FrameMs)
    \/ CbReturn

SpecStream == InitStream /\ [][NextStream]_vars

\* ------------------------------------------------------------------ a dictation session
\* The application after the models were loaded and a toggle armed the
\* engine: the controller is in Listening, the stream is open, and the user
\* dictates up to MaxUtterances utterances, one after the other, and may
\* toggle once from the tray menu (the events before it: the toggle that
\* armed the engine and toggles ignored while the models were loading).  An
\* utterance is UtteranceFrames speech
\* frames, the least number that passes the minimum-duration check, and two
\* silence frames, the second of these silence_threshold_ms after the first.
UtteranceFrames == (min_samples + vad_chunk_size - 1) \div vad_chunk_size
CycleFrames == UtteranceFrames + 2
FramePos(k) == ((k - 1) % CycleFrames) + 1
SessionVad(k) == Vad(FramePos(k) <= UtteranceFrames)
SessionTick(k) == IF FramePos(k) = CycleFrames THEN silence_threshold_ms ELSE 0

InitSession ==
    /\ is_listening = TRUE /\ stream = 1 /\ audio_buffer = <<>>
    /\ is_speaking = FALSE /\ silence_start_time = None
    /\ pending_samples = <<>> /\ lock = "free" /\ on_audio_chunk = "app"
    /\ streams = {1} /\ nsessions = 1 /\ nframes = 0 /\ now = 0
    /\ cb_pc = "idle" /\ cb_stream = 0
    /\ pc = [t \in Threads |-> "idle"] /\ ctx = [t \in Threads |-> "none"]
    /\ ret = "idle" /\ arg = NoEvent
    /\ state = "listening" /\ models_loaded = TRUE /\ queue = <<>>
    /\ workers = {} /\ nworkers = 0 /\ loader = "done"
    /\ is_typing = FALSE /\ abort_flag = FALSE /\ inj_text = <<>> /\ typed = <<>>
    /\ inj_call = [t \in Threads |-> NoCall] /\ after_abort = 0
    /\ last_final = NoFinal /\ nhanded = 0 /\ last_frame = NoFrame
    /\ aborted = {} /\ nsamples = 0 /\ emitted = {} /\ strays = 0
    /\ script = NoScript /\ nevents = MaxEvents - 1

NextSession ==
    \/ (nevents < MaxEvents /\ ToggleBegin("ui"))
    \/ ToggleBranch("ui")
    \/ ToggleElif("ui")
    \/ ToggleStandby("ui")
    \/ StopCheck("ui")
    \/ StopFlush("ui")
    \/ StopClose("ui")
    \/ \E s \in streams :
         /\ vad_chunk_size * nframes + PendLen(pending_samples)
                < vad_chunk_size * CycleFrames * MaxUtterances
         /\ CbEnter(s, blocksize)
    \/ CbFrame(SessionVad(nframes + 1), SessionTick(nframes + 1))
    \/ CbReturn
    \/ UiDispatch
    \/ ProcCheck
    \/ ProcDispatch
    \/ ProcEnd
    \/ \E w \in workers, text \in Transcripts : WorkerRun(w, text)
    \/ ResultBegin
    \/ InjectEntry("ui")
    \/ InjectAccept("ui")
    \/ InjectCheckAbort("ui")
    \/ InjectType("ui")
    \/ InjectRaise("ui")
    \/ InjectFinally("ui")
    \/ ResultReadArmed
    \/ ResultSetState

SpecSession == InitSession /\ [][NextSession]_vars

\* ------------------------------------------------------------------ scripted-stream claims
\* the frames of a chunk or buffer, by their position in the stream
FrameIds(buf) == [i \in 1..Len(buf) |-> buf[i].k]
Run(a, b) == [i \in 1..(b - a + 1) |-> a + i - 1]

StreamDone == nsessions = 1 /\ nframes = ScriptLen /\ cb_pc = "idle"
Idle == ~is_speaking /\ audio_buffer = <<>> /\ silence_start_time = None
PlainScript == script.G = 0 /\ script.R = 0

\* the least number of silence frames whose last one is processed
\* silence_threshold after the first one, the clock advancing FrameMs a frame
MinSilenceFrames == 1 + ((silence_threshold_ms + FrameMs - 1) \div FrameMs)

\* C4 as claimed: N speech frames then M silence frames with
\* M * frame_duration >= silence_threshold give exactly one utterance, made of
\* all N+M frames, and leave the engine Idle.
C4_AsClaimed ==
    (PlainScript /\ script.M * FrameMs >= silence_threshold_ms) =>
        /\ StreamDone => (nhanded = 1 /\ Idle)
        /\ last_final.out # "none" =>
              (last_final.out = "handed"
               /\ FrameIds(last_final.u) = Run(1, script.N + script.M))

\* C4 amended: the silence timer starts at the first silence frame, so the
\* run must last (M-1) * frame_duration >= silence_threshold; then exactly
\* one utterance is emitted, at silence frame MinSilenceFrames, made of the N
\* speech frames and the silence frames up to that one (all N+M frames when
\* M = MinSilenceFrames), and the engine is Idle afterwards; 40 speech and 33
\* silence frames give one utterance of 73 * 512 = 37376 samples.
C4_OneUtterance ==
    (PlainScript /\ (script.M - 1) * FrameMs >= silence_threshold_ms) =>
        /\ StreamDone => (nhanded = 1 /\ Idle)
        /\ nframes < script.N + MinSilenceFrames => nhanded = 0
        /\ last_final.out # "none" =>
              /\ last_final.out = "handed"
              /\ nframes = script.N + MinSilenceFrames
              /\ FrameIds(last_final.u) = Run(1, script.N + MinSilenceFrames)
              /\ Idle
              /\ (script.N = 40 /\ script.M = 33) => Samples(last_final.u) = 37376

C4_Witness ==
    /\ PlainScript /\ script.N = 40 /\ script.M = 33
    /\ nframes = ScriptLen /\ last_final.out = "handed" /\ nhanded = 1
    /\ Len(last_final.u) = 73

\* C5 as claimed: a speech run shorter than min_speech_duration never
\* produces an utterance, however long the silence after it; an utterance is
\* emitted iff the speech run meets min_speech_duration.
C5_AsClaimed ==
    PlainScript =>
        /\ script.N * vad_chunk_size < min_samples => nhanded = 0
        /\ (StreamDone /\ nhanded > 0) => script.N * vad_chunk_size >= min_samples

\* C7: a silence run shorter than silence_threshold followed by speech emits
\* nothing at the interruption, the speech frame clears the silence timer,
\* the buffer keeps every frame before, during and after the interruption and
\* the utterance emitted later holds them all; a buffer is finalized only on
\* a silence frame of a run that has lasted silence_threshold.
SilenceRunStart(k) ==
    IF k <= script.N + script.G THEN script.N + 1
    ELSE script.N + script.G + script.R + 1

C7_Interruption ==
    /\ last_frame.sp => (silence_start_time = None /\ is_speaking
                         /\ last_final = NoFinal)
    /\ last_final.out # "none" =>
          /\ ~ScriptSpeech(nframes)
          /\ (nframes - SilenceRunStart(nframes)) * FrameMs >= silence_threshold_ms
    /\ (script.R > 0 /\ script.G * FrameMs < silence_threshold_ms) =>
          /\ nframes <= script.N + script.G + script.R =>
                (nhanded = 0 /\ last_final = NoFinal
                 /\ (cb_pc = "idle" => FrameIds(audio_buffer) = Run(1, nframes)))
          /\ last_final.out # "none" =>
                /\ last_final.out = "handed"
                /\ FrameIds(last_final.u) = Run(1, nframes)
                /\ nframes = script.N + script.G + script.R + MinSilenceFrames

C7_Witness ==
    /\ script.R > 0 /\ script.G = 31
    /\ last_final.out = "handed"
    /\ Len(last_final.u) = script.N + script.G + script.R + MinSilenceFrames

\* ------------------------------------------------------------------ engine claims
\* C6: every chunk handed to on_audio_chunk, by the callback or by stop(),
\* has at least int(min_speech_duration_ms * sample_rate / 1000) samples; a
\* finalized buffer below that is dropped, and either way the engine is left
\* Idle with an empty buffer.
C6_MinDuration ==
    last_final.out # "none" =>
        /\ last_final.u # <<>>
        /\ (last_final.out = "handed") = (Samples(last_final.u) >= 4000)
        /\ (last_final.out = "short") = (Samples(last_final.u) < 4000)
        /\ Idle

C6_Witness ==
    /\ last_final.out = "short" /\ last_final.by = "cb"
    /\ nhanded = 1

\* C8: the flush of stop(), reached on an armed engine: when the engine is
\* Speaking with a non-empty buffer, that buffer is finalized at once,
\* whether or not a silence timer runs, handed over when it has at least
\* min_speech_duration of samples and dropped otherwise, and the engine is
\* Idle with an empty buffer afterwards.
StopFlushStep(t) == pc[t] = "sp_267" /\ pc'[t] # "sp_267"

C8_StopFlush ==
    [][\A t \in Threads :
        (StopFlushStep(t) /\ is_speaking /\ audio_buffer # <<>>) =>
            /\ last_final'.u = audio_buffer
            /\ last_final'.by = t
            /\ last_final'.out =
                  IF Samples(audio_buffer) >= min_samples THEN "handed" ELSE "short"
            /\ nhanded' = nhanded + (IF Samples(audio_buffer) >= min_samples THEN 1 ELSE 0)
            /\ Idle']_vars

C8_Witness ==
    /\ last_final.by = "ui" /\ last_final.out = "handed"
    /\ pc["ui"] = "sp_272" /\ Idle

\* C9: a start() that finds the engine stopped leaves it Idle with an empty
\* buffer, no silence timestamp and no pending samples, and hands over
\* nothing itself; every chunk finalized afterwards is made only of samples
\* the stream opened by the latest start() delivered.
StartStep(t) == pc[t] \in {"st_226", "st_237"} /\ pc'[t] # pc[t]
StartReturns(t) == pc[t] = "st_237" /\ pc'[t] # "st_237"

C1_AsClaimed == Cardinality(workers) <= 1

\* C2 as claimed: no character of a transcription that was outstanding when
\* panic was issued in TRANSCRIBING is ever typed by inject.
C2_AsClaimed == \A i \in 1..Len(typed) : typed[i].w \notin aborted

\* C3 as claimed: _panic_stop calls injector.abort() first, and when it
\* returns the controller is in STANDBY and the engine is disarmed
\* (is_listening false), whatever the state it was issued in.
PanicIssued(t) == pc[t] = "idle" /\ pc'[t] = "sp_261" /\ ctx'[t] = "panic"
PanicReturns(t) == pc[t] = "pn_687" /\ pc'[t] = "idle"

C3_AsClaimed ==
    [][\A t \in Threads :
        /\ PanicIssued(t) => abort_flag'
        /\ PanicReturns(t) => (state' = "standby" /\ ~is_listening')]_vars

\* C10: a toggle that finds the controller in TRANSCRIBING, at the if and at
\* the elif of _toggle_listening, returns without changing anything: the
\* controller state, is_listening, the engine's buffer and segmentation
\* state, the stream and the running workers are as they were.
ToggleReads(t) == pc[t] \in {"tg_659", "tg_665"} /\ pc'[t] # pc[t]

C10_ToggleNoOp ==
    [][\A t \in Threads :
        (ToggleReads(t) /\ state = "transcribing") =>
            /\ pc'[t] = (IF pc[t] = "tg_659" THEN "tg_665" ELSE "idle")
            /\ UNCHANGED <<state, workers, queue, engineVars, streams, injVars>>]_vars

C10_Witness ==
    /\ state = "transcribing" /\ workers # {} /\ is_listening
    /\ \E t \in Threads : pc[t] = "tg_665"

\* a step of _panic_stop on thread t: its entry, a step of the stop() it
\* calls, or its return
PanicStep(t) == pc'[t] # pc[t] /\ (ctx[t] = "panic" \/ PanicIssued(t))

\* nothing is in flight: no capture, no utterance on its way, no
\* transcription, no injection, no other handler running
NothingInFlight ==
    /\ ~is_listening /\ streams = {} /\ cb_pc = "idle"
    /\ audio_buffer = <<>> /\ pending_samples = <<>>
    /\ workers = {} /\ queue = <<>> /\ ~is_typing
    /\ pc["ui"] = "idle"

\* C11 as claimed: a panic issued when nothing is in flight changes nothing
\* except the controller state, which becomes STANDBY.
C11_AsClaimed ==
    [][\A t \in Threads :
        (PanicStep(t) /\ NothingInFlight) =>
            /\ UNCHANGED <<engineVars, audioVars, models_loaded, queue, workers,
                           nworkers, injVars, nhanded>>
            /\ last_final' = NoFinal
            /\ PanicReturns(t) => state' = "standby"]_vars

\* C11 amended: a panic issued when nothing is in flight emits no utterance,
\* dispatches no transcription and changes nothing except the controller
\* state, set to STANDBY, and the injector's abort_flag, which abort() raises;
\* a panic that follows a panic (STANDBY, engine disarmed, abort_flag raised)
\* changes nothing at all.
C11_PanicIdempotent ==
    [][\A t \in Threads :
        /\ (PanicStep(t) /\ NothingInFlight) =>
              /\ UNCHANGED <<engineVars, audioVars, models_loaded, queue, workers,
                             nworkers, is_typing, inj_text, typed, nhanded>>
              /\ last_final' = NoFinal
              /\ abort_flag' = (IF PanicIssued(t) THEN TRUE ELSE abort_flag)
              /\ state' = (IF PanicReturns(t) THEN "standby" ELSE state)
        /\ (PanicStep(t) /\ pc[t] \in {"idle", "sp_261", "pn_687"}
               /\ ~is_listening /\ state = "standby" /\ abort_flag) =>
              /\ UNCHANGED <<engineVars, audioVars, appVars, injVars, nhanded>>
              /\ last_final' = NoFinal]_vars

\* a second panic is about to return: with the models not loaded only an
\* earlier panic can have set STANDBY
C11_Witness ==
    /\ ~models_loaded /\ state = "standby" /\ abort_flag
    /\ pc["hk"] = "pn_687" /\ NothingInFlight

\* ------------------------------------------------------------------ gating claims
\* the step classifies a frame and appends it to the utterance buffer
FrameBuffered == last_frame'.k # 0 /\ (last_frame'.sp \/ is_speaking)

\* C12 as claimed: once is_listening is false no frame is appended to the
\* utterance buffer, not even a frame of a block whose callback was already
\* running when stop() cleared the flag.
C12_AsClaimed == [][~is_listening => ~FrameBuffered]_vars

\* ------------------------------------------------------------------ result handling claims
\* the main thread leaves label l
UiLeaves(l) == pc["ui"] = l /\ pc'["ui"] # l
InjectLabels == {"in_60", "in_64", "in_87", "in_100", "in_114"}

\* C13: _on_transcription_complete passes the text to inject iff it is
\* non-empty; whatever inject does (types, is rejected, is aborted, types
\* nothing) the handler goes on to test is_listening, and sets LISTENING when
\* the test found the engine armed and STANDBY otherwise; it starts no worker
\* and queues no result again (no retry), and an empty result types nothing.
C13_ResultHandling ==
    [][/\ UiLeaves("tc_728") =>
             pc'["ui"] = (IF arg.text # <<>> THEN "in_60" ELSE "tc_732")
       /\ (\E l \in InjectLabels : UiLeaves(l)) =>
             /\ pc'["ui"] \in InjectLabels \cup {"tc_732"}
             /\ UNCHANGED <<state, workers, nworkers, queue>>
       /\ UiLeaves("tc_732") =>
             /\ pc'["ui"] = (IF is_listening THEN "tc_733" ELSE "tc_735")
             /\ UNCHANGED <<state, workers, nworkers, queue>>
       /\ (UiLeaves("tc_733") \/ UiLeaves("tc_735")) =>
             /\ state' = (IF pc["ui"] = "tc_733" THEN "listening" ELSE "standby")
             /\ pc'["ui"] = "idle"
             /\ UNCHANGED <<workers, nworkers, queue>>
             /\ arg.text = <<>> => \A i \in 1..Len(typed) : typed[i].w # arg.w]_vars

\* a result handled in TRANSCRIBING whose text was typed, the engine found
\* armed, the handler about to set LISTENING
C13_Witness ==
    /\ pc["ui"] = "tc_733" /\ state = "transcribing"
    /\ \E i \in 1..Len(typed) : typed[i].w = arg.w

\* ------------------------------------------------------------------ loading claims
\* the ModelLoaderWorker has emitted model_loaded(False)
LoadFailed ==
    /\ loader = "done" /\ ~models_loaded
    /\ ~(arg.ev = "loaded" /\ arg.ok)
    /\ \A i \in 1..Len(queue) : ~(queue[i].ev = "loaded" /\ queue[i].ok)

\* C14 as claimed: after a failed model load the controller stays in LOADING,
\* whatever event comes later.
C14_AsClaimed == [][(LoadFailed /\ state = "loading") => state' = "loading"]_vars

\* C15: the engine is armed only after model_loaded(True) was delivered: in
\* every state in which is_listening is true, a stream is open, start() is
\* running or a transcription has been dispatched, _models_loaded is true; a
\* toggle during LOADING or after a load failure starts nothing.
C15_ArmedOnlyLoaded ==
    (\/ is_listening \/ streams # {} \/ nsessions > 0 \/ nworkers > 0
     \/ \E t \in Threads : pc[t] \in {"tg_661", "st_221", "st_226", "st_237"})
        => models_loaded

\* a toggle was handled after the load failed: every thread is idle again and
\* the state is still LOADING, which a panic would have changed
C15_Witness ==
    /\ LoadFailed /\ state = "loading" /\ nevents = 1
    /\ \A t \in Threads : pc[t] = "idle"
    /\ queue = <<>> /\ ~is_listening

\* ------------------------------------------------------------------ injector claims
\* the labels at which a call holds is_typing
TypingLabels == {"in_87", "in_100", "in_114", "if_156", "if_164"}
Typing(t) == pc[t] \in TypingLabels

\* the characters of each call are contiguous in what was typed
Contiguous(seq) ==
    \A i, j, k \in 1..Len(seq) :
        (i < j /\ j < k /\ seq[i].w = seq[k].w) => seq[j].w = seq[i].w

\* C16: inject or inject_fast called while an injection is running (is_typing
\* set) returns False and types nothing; at most one call is typing at any
\* instant and the characters of two calls never interleave.
C16_Rejected ==
    [][/\ \A t \in Threads :
            (pc[t] \in {"in_64", "if_144"} /\ pc'[t] # pc[t] /\ is_typing) =>
                /\ inj_call'[t].rv = "false"
                /\ pc'[t] = "idle"
                /\ typed' = typed /\ inj_text' = inj_text /\ is_typing'
       /\ typed' # typed =>
             \E t \in Threads : pc[t] \in {"in_100", "if_156"} /\ pc'[t] # pc[t]
       /\ Cardinality({t \in Threads : pc'[t] \in TypingLabels}) <= 1
       /\ Contiguous(typed')]_vars

\* a call was rejected while the other thread's injection, which has typed a
\* character, is still running
C16_Witness ==
    \E t, u \in Threads :
        /\ t # u /\ pc[t] = "idle" /\ inj_call[t].rv = "false"
        /\ Typing(u) /\ inj_text # <<>>
        /\ \E i \in 1..Len(typed) : typed[i].w = inj_call[u].w
        /\ \A i \in 1..Len(typed) : typed[i].w # inj_call[t].w

IsPrefix(a, b) == Len(a) <= Len(b) /\ SubSeq(b, 1, Len(a)) = a

\* thread t returns from inject through the finally block
InjectEnds(t) == pc[t] = "in_114" /\ pc'[t] # "in_114"

\* C17 as claimed: once abort() is called while inject is typing, inject
\* types at most one further character, keeps what was typed and returns
\* False (stated for an abort() that came before a character was typed).
C17_AsClaimed ==
    [][/\ after_abort' <= 1
       /\ IsPrefix(typed, typed')
       /\ \A t \in Threads :
            (InjectEnds(t) /\ abort_flag /\ after_abort > 0) =>
                inj_call[t].rv = "false"]_vars

\* C17 amended: abort_flag is tested before every character: a test that
\* finds it raised types nothing more and makes inject return False, so at
\* most one character is typed after abort() is called, and nothing typed is
\* taken back; inject returns True only when every character was typed, which
\* includes an abort() that comes after the test of the last character.
C17_AbortLatency ==
    [][/\ after_abort' <= 1
       /\ IsPrefix(typed, typed')
       /\ \A t \in Threads :
            /\ (pc[t] = "in_87" /\ pc'[t] # "in_87" /\ abort_flag /\ inj_text # <<>>) =>
                  /\ pc'[t] = "in_114" /\ inj_call'[t].rv = "false"
                  /\ typed' = typed
            /\ (pc[t] = "in_100" /\ pc'[t] # "in_100") => ~inj_call[t].rv = "false"
            /\ (InjectEnds(t) /\ inj_call[t].rv = "true") => inj_text = <<>>]_vars

\* abort() came between the test and the typing of a character: that
\* character was typed, the next test returned False, the rest is untyped
C17_Witness ==
    \E t \in Threads :
        /\ pc[t] = "in_114" /\ inj_call[t].rv = "false"
        /\ after_abort = 1 /\ inj_text # <<>> /\ Len(typed) >= 2

\* ---------------------------------------------------------------------- C18
\* a step of the callback's loop on which the classifier failed
VadFailed == nframes' = nframes + 1 /\ last_frame'.vad = "error"
\* the frame that step sliced off the pending samples
FailedFrame == [k |-> last_frame'.k, src |-> last_frame'.src]

\* C18: a frame on which the classifier fails is handled as a silent frame:
\* dropped when the engine is not speaking; appended when it is, the silence
\* timer being started if it is not running and checked if it is (the buffer
\* with the frame is finalized once the threshold is reached).  The callback
\* stays in its loop after the failure, and leaves the loop only when less
\* than one frame is pending.
C18_FailureIsSilence ==
    [][/\ VadFailed =>
            /\ cb_pc = "loop" /\ cb_pc' = "loop"
            /\ PendLen(pending_samples') = PendLen(pending_samples) - vad_chunk_size
            /\ ~is_speaking =>
                  /\ UNCHANGED <<audio_buffer, is_speaking, silence_start_time>>
                  /\ last_final' = NoFinal
            /\ (is_speaking /\ silence_start_time = None) =>
                  /\ audio_buffer' = Append(audio_buffer, FailedFrame)
                  /\ is_speaking' /\ silence_start_time' = now'
                  /\ last_final' = NoFinal
            /\ (is_speaking /\ silence_start_time # None
                   /\ now' - silence_start_time < silence_threshold_ms) =>
                  /\ audio_buffer' = Append(audio_buffer, FailedFrame)
                  /\ UNCHANGED <<is_speaking, silence_start_time>>
                  /\ last_final' = NoFinal
            /\ (is_speaking /\ silence_start_time # None
                   /\ now' - silence_start_time >= silence_threshold_ms) =>
                  /\ audio_buffer' = <<>> /\ ~is_speaking'
                  /\ silence_start_time' = None
                  /\ last_final'.u = Append(audio_buffer, FailedFrame)
       /\ (cb_pc = "loop" /\ cb_pc' = "idle") =>
            PendLen(pending_samples) < vad_chunk_size]_vars

\* the classifier has failed on a frame while the engine was speaking with the
\* silence timer running, and more frames of the block are pending
C18_Witness ==
    /\ last_frame.vad = "error" /\ is_speaking /\ silence_start_time # None
    /\ Len(audio_buffer) >= 2 /\ cb_pc = "loop"
    /\ PendLen(pending_samples) >= vad_chunk_size

\* ---------------------------------------------------------------------- C19
\* _process_audio_chunk returns at its state test for a chunk that the stop()
\* of a toggle flushed, no panic stop being pending (abort_flag is not set)
FlushedChunkDropped ==
    /\ pc["ui"] = "pc_707" /\ arg.via = "toggle" /\ ~abort_flag
    /\ pc'["ui"] # "pc_707" /\ pc'["ui"] # "pc_713"

\* C19 as claimed: the utterance flushed by the stop() of a toggle from
\* Listening to Standby is dispatched to transcription (and never dropped by
\* _process_audio_chunk), stated for toggles that no panic stop interferes
\* with.
C19_AsClaimed == [][~FlushedChunkDropped]_vars

\* ---------------------------------------------------------------------- C20
\* the engine is armed: the flag the capture callback tests is set and the
\* input stream is open, so that every block delivered is processed
Armed == is_listening /\ stream # 0 /\ stream \in streams

\* C20 as claimed: the engine is armed only while the controller is in
\* Listening; it is not armed while the controller is in Transcribing.
C20_AsClaimed == state = "transcribing" => ~Armed

\* ---------------------------------------------------------------------- C21
\* the utterances handed over by the engine that wait for the controller
RECURSIVE PendingChunks(_)
PendingChunks(q) ==
    IF q = <<>> THEN 0
    ELSE (IF Head(q).ev = "chunk" THEN 1 ELSE 0) + PendingChunks(Tail(q))

\* C21 as claimed: while the controller is in Transcribing or injecting, at
\* most one utterance is pending between the engine and the controller.
C21_AsClaimed ==
    (state = "transcribing" \/ pc["ui"] \in InjectLabels) => PendingChunks(queue) <= 1

\* ---------------------------------------------------------------------- C22
\* _on_transcription_complete is entered with a result while the controller
\* is not in Transcribing and no hotkey handler is running
LateResult == pc["ui"] = "tc_728" /\ state # "transcribing" /\ pc["hk"] = "idle"

\* C22 as claimed: a transcription result delivered while the controller is
\* not in Transcribing is discarded: inject is not called for it and the
\* handler leaves the controller state unchanged.
C22_AsClaimed ==
    [][LateResult => (pc'["ui"] # "in_60" /\ state' = state)]_vars

\* ---------------------------------------------------------------------- C23
\* thread t returns from the start() its toggle called, and so from the toggle
ToggleStartEnds(t) ==
    /\ ctx[t] = "toggle" /\ pc[t] \in {"st_221", "st_237"} /\ pc'[t] = "idle"

\* C23 as claimed: a toggle handled in Standby never leaves the controller in
\* Listening with an engine that is not armed.
C23_AsClaimed ==
    [][\A t \in Threads : (ToggleStartEnds(t) /\ state' = "listening") => Armed']_vars

\* ---------------------------------------------------------------------- C24
\* C24 as claimed: the controller enters Transcribing only from Listening.
C24_AsClaimed ==
    [][(state' = "transcribing" /\ state # "transcribing") => state = "listening"]_vars

\* ---------------------------------------------------------------------- C25
\* the segmentation state as the engine leaves it whenever the lock is free
WellFormed ==
    /\ ~is_speaking => (audio_buffer = <<>> /\ silence_start_time = None)
    /\ is_speaking => audio_buffer # <<>>
\* the callback classifies a frame as not speech while the engine is idle
IdleSilence == nframes' = nframes + 1 /\ ~last_frame'.sp /\ ~is_speaking

\* C25: in every reachable state the buffer is empty and the silence
\* timestamp unset when the engine is not speaking, and the buffer is
\* non-empty when it is; a frame classified as not speech while the engine is
\* idle changes neither the buffer nor the flag nor the timestamp.
C25_WellFormed ==
    [][/\ WellFormed /\ WellFormed'
       /\ IdleSilence => UNCHANGED <<audio_buffer, is_speaking, silence_start_time>>]_vars

\* a silent frame has just been dropped by an idle engine that handed over an
\* utterance before
C25_Witness ==
    /\ last_frame.k # 0 /\ ~last_frame.sp /\ last_final = NoFinal
    /\ ~is_speaking /\ audio_buffer = <<>> /\ nhanded >= 1

\* ---------------------------------------------------------------------- C26
\* C26: the utterance buffer, the speaking flag and the silence timestamp
\* are touched only by a step that enters the engine lock: while a thread
\* holds the lock (stop() flushing and handing the chunk over), no frame goes
\* through the callback's hysteresis step and no start() or stop() changes
\* the three fields.
C26_LockDiscipline ==
    [][lock # "free" =>
         /\ UNCHANGED <<audio_buffer, is_speaking, silence_start_time>>
         /\ nframes' = nframes
         /\ \A t \in Threads : pc[t] \in {"st_226", "sp_267"} => pc'[t] = pc[t]]_vars

\* stop() holds the lock after its flush while the callback has a frame to
\* classify
C26_Witness ==
    /\ lock = "ui" /\ pc["ui"] = "pc_707" /\ ret = "sp_272"
    /\ cb_pc = "loop" /\ PendLen(pending_samples) >= vad_chunk_size

\* ---------------------------------------------------------------------- C27
\* the callback slices a frame off the pending samples
FrameSliced == nframes' = nframes + 1
\* the callback returns from its loop
LoopEnds == cb_pc = "loop" /\ cb_pc' = "idle"
\* the samples of the open stream: those received are the ones sliced into
\* frames followed by the ones pending
Accounted == nsamples = vad_chunk_size * nframes + PendLen(pending_samples)

\* C27 as claimed: whatever the lengths of the blocks, while a stream is open the
\* samples received are 512 times the frames classified plus the pending
\* ones; a frame is sliced only off at least 512 pending samples, takes
\* exactly the first 512 of them, all of the open stream, and is numbered in
\* order; every turn of the loop shortens the pending samples, and the
\* callback returns with fewer than 512 pending.
C27_AsClaimed ==
    [][/\ (stream # 0 => Accounted) /\ (stream' # 0 => Accounted')
       /\ FrameSliced =>
            /\ PendLen(pending_samples) >= vad_chunk_size
            /\ PendLen(pending_samples') = PendLen(pending_samples) - vad_chunk_size
            /\ last_frame'.k = nframes + 1
            /\ last_frame'.src = {cb_stream}
            /\ nsamples' = nsamples
       /\ LoopEnds => PendLen(pending_samples) < vad_chunk_size]_vars

\* ---------------------------------------------------------------------- C28
\* the step finalizes an utterance and hands it to on_audio_chunk
HandsOver == last_final'.out = "handed"
\* the handoffs a step makes: the chunks it counts, queues for the main thread
\* and passes to _process_audio_chunk directly
QueuedNow == PendingChunks(queue') - PendingChunks(queue)
DirectNow == IF arg'.ev = "chunk" /\ arg.ev # "chunk" THEN 1 ELSE 0

\* C28: a step that hands an utterance over hands it over once (one call of
\* on_audio_chunk: one signal queued or one direct call when the callback is
\* the application's), leaves the buffer empty, the engine not speaking and
\* the timestamp unset, and hands over no frame that an earlier utterance
\* contained; no other step hands anything over (a chunk reaches
\* _process_audio_chunk otherwise only by leaving the queue).
C28_ExactlyOnce ==
    [][IF HandsOver
       THEN /\ nhanded' = nhanded + 1
            /\ on_audio_chunk = "app" =>
                  (QueuedNow + DirectNow = 1 /\ QueuedNow >= 0)
            /\ audio_buffer' = <<>> /\ ~is_speaking' /\ silence_start_time' = None
            /\ Frames(last_final'.u) \cap emitted = {}
            /\ Cardinality(Frames(last_final'.u)) = Len(last_final'.u)
            /\ emitted' = emitted \cup Frames(last_final'.u)
       ELSE /\ nhanded' = nhanded /\ emitted' = emitted
            /\ QueuedNow <= 0 /\ (DirectNow = 1 => QueuedNow = -1)]_vars

\* stop() has cleared is_listening and waits to flush when the callback
\* finalizes the utterance and hands it over: the flush will find nothing
C28_Witness ==
    /\ \E t \in Threads : pc[t] = "sp_267"
    /\ last_final.by = "cb" /\ last_final.out = "handed"
    /\ audio_buffer = <<>> /\ Frames(last_final.u) \subseteq emitted

\* ---------------------------------------------------------------------- C29
\* the results of transcriptions that wait for the main thread
RECURSIVE PendingTexts(_)
PendingTexts(q) ==
    IF q = <<>> THEN 0
    ELSE (IF Head(q).ev = "text" THEN 1 ELSE 0) + PendingTexts(Tail(q))
\* a step of the capture callback
CallbackStep == cb_pc' # cb_pc \/ nframes' # nframes
\* a transcription ends, a character is typed
Transcribed == PendingTexts(queue') > PendingTexts(queue)
Typed == typed' # typed

\* C29 as claimed: the engine lock is never held while a transcription or an
\* injection executes.
C29_AsClaimed == lock # "free" => (workers = {} /\ pc["ui"] \notin InjectLabels)

\* C29: a transcription is run by a TranscriptionWorker and by no other
\* thread, inject is executed by the main thread only, no step of the capture
\* callback transcribes, types or starts a worker, and a thread that holds the
\* engine lock neither is inside inject nor types.
C29_Domains ==
    [][/\ Transcribed =>
            /\ \E w \in workers : workers' = workers \ {w}
            /\ UNCHANGED <<pc, cb_pc, lock, typed>>
       /\ CallbackStep =>
            /\ ~Transcribed /\ ~Typed
            /\ UNCHANGED <<workers, nworkers, is_typing, inj_text, inj_call>>
       /\ \A t \in Threads : pc'[t] \in InjectLabels => (t = "ui" /\ lock' # t)
       /\ Typed => (pc["ui"] \in InjectLabels /\ lock # "ui")]_vars

\* the main thread is typing a result while the callback has a frame to
\* classify: the engine lock is free
C29_Witness ==
    /\ pc["ui"] = "in_100" /\ typed # <<>> /\ lock = "free"
    /\ cb_pc = "loop" /\ PendLen(pending_samples) >= vad_chunk_size

\* ---------------------------------------------------------------------- C30
\* thread t is inside the handler of a toggle, a panic, an utterance or a
\* transcription result
InHandler(t) == pc[t] \notin {"idle", "ml_813", "ml_817"}

\* C30 as claimed: the handlers never interleave: while a thread is inside a
\* handler no other thread is inside one, and the controller state changes
\* only by that handler's own steps (the handler of model_loaded left
\* aside).
C30_AsClaimed ==
    [][\A t \in Threads :
         (InHandler(t) /\ pc["ui"] \notin {"ml_813", "ml_817"}) =>
           /\ \A u \in Threads \ {t} : ~InHandler(u)
           /\ pc'[t] = pc[t] => state' = state]_vars

\* ---------------------------------------------------------------------- C31
\* the capture callback gets past its test of is_listening
CallbackBegins == cb_pc = "idle" /\ cb_pc' = "loop"
\* the capture callback hands an utterance over although stop() has cleared
\* is_listening
StrayStep == HandsOver /\ last_final'.by = "cb" /\ ~is_listening

\* C31: a callback gets past its test only while is_listening is set, so an
\* utterance handed over by the callback after stop() cleared the flag comes
\* from a callback that was already running; between a stop() that clears
\* the flag and the next start() the callback hands over at most one
\* utterance.
C31_OneStray ==
    [][/\ CallbackBegins => is_listening
       /\ StrayStep => (cb_pc = "loop" /\ strays = 0 /\ strays' = 1)
       /\ strays' <= 1]_vars

\* the callback has just handed an utterance over while stop() waits to flush
\* with the flag cleared
C31_Witness ==
    /\ strays = 1 /\ ~is_listening /\ cb_pc = "loop"
    /\ last_final.by = "cb" /\ last_final.out = "handed"
    /\ \E t \in Threads : pc[t] = "sp_267"

\* ---------------------------------------------------------------------- C32
\* the frame the callback classified in the step, as it is buffered
FrameOf(f) == [k |-> f.k, src |-> f.src]
Classified == last_frame'.k # 0
\* a frame is put into the empty utterance buffer
BufferOpens == audio_buffer = <<>> /\ audio_buffer' # <<>>
\* each frame of a buffer or chunk is the one classified next after the
\* frame before it: the next frame of the same stream, or the first frame of
\* a stream opened later
NoGap(buf) ==
    \A i \in 1..(Len(buf) - 1) :
      IF buf[i + 1].src = buf[i].src THEN buf[i + 1].k = buf[i].k + 1
      ELSE /\ buf[i + 1].k = 1
           /\ \A s \in buf[i].src, t \in buf[i + 1].src : s < t

\* C32: every utterance handed over has a length that is a positive multiple
\* of vad_chunk_size and is the buffer itself or the buffer with the frame
\* just classified; the frame that opens an empty buffer is classified as
\* speech; while the buffer is not empty every frame classified is appended
\* to it (or handed over with it), in the order of classification, and the
\* buffer changes in no other way than by being emptied: no frame is missing
\* between the first and the last frame of an utterance.
C32_Utterances ==
    [][/\ BufferOpens =>
            (Classified /\ last_frame'.sp /\ audio_buffer' = <<FrameOf(last_frame')>>)
       /\ (Classified /\ audio_buffer # <<>>) =>
            \/ audio_buffer' = Append(audio_buffer, FrameOf(last_frame'))
            \/ /\ audio_buffer' = <<>>
               /\ last_final'.u = Append(audio_buffer, FrameOf(last_frame'))
       /\ (~Classified /\ audio_buffer' # audio_buffer) =>
            (audio_buffer' = <<>> /\ last_final'.u \in {<<>>, audio_buffer})
       /\ HandsOver =>
            /\ Samples(last_final'.u) > 0
            /\ Samples(last_final'.u) % vad_chunk_size = 0
            /\ NoGap(last_final'.u)
       /\ NoGap(audio_buffer')]_vars

\* the callback hands over an utterance that ends with silence frames and
\* began with frames classified before the stream was reopened
C32_Witness ==
    /\ last_final.out = "handed" /\ last_final.by = "cb" /\ ~last_frame.sp
    /\ \E i \in 1..Len(last_final.u) : last_final.u[i].src # last_final.u[1].src

\* ---------------------------------------------------------------------- a session under fair scheduling
\* The dictation session with the panic hotkey: the one event of the session
\* is a toggle from the tray menu or a panic stop on the hotkey thread.
\* The steps of the main thread that need no user: the event loop and the
\* handlers it runs
MainStep ==
    \/ ToggleBranch("ui") \/ ToggleElif("ui") \/ ToggleStandby("ui")
    \/ StopCheck("ui") \/ StopFlush("ui") \/ StopClose("ui")
    \/ UiDispatch \/ ProcCheck \/ ProcDispatch \/ ProcEnd
    \/ ResultBegin
    \/ InjectEntry("ui") \/ InjectAccept("ui") \/ InjectCheckAbort("ui")
    \/ InjectType("ui") \/ InjectRaise("ui") \/ InjectFinally("ui")
    \/ ResultReadArmed \/ ResultSetState
\* the steps of _panic_stop on the hotkey thread once it is called
HotkeyStep ==
    \/ StopCheck("hk") \/ StopFlush("hk") \/ StopClose("hk") \/ PanicStandby("hk")
\* the steps of a capture callback once it has taken its block
CaptureStep ==
    \/ CbFrame(SessionVad(nframes + 1), SessionTick(nframes + 1))
    \/ CbReturn
\* a TranscriptionWorker runs to its end
WorkerStep == \E w \in workers, text \in Transcripts : WorkerRun(w, text)

\* utterances the stream delivers in the fair session
FairUtterances == MaxUtterances - 2

NextFair ==
    \/ (nevents < MaxEvents /\ ToggleBegin("ui"))
    \/ (nevents < MaxEvents /\ PanicBegin("hk"))
    \/ \E s \in streams :
         /\ vad_chunk_size * nframes + PendLen(pending_samples)
                < vad_chunk_size * CycleFrames * FairUtterances
         /\ CbEnter(s, blocksize)
    \/ MainStep
    \/ HotkeyStep
    \/ CaptureStep
    \/ WorkerStep

\* every thread that can take a step eventually takes one: the operating
\* system schedules the main thread, the hotkey thread, the audio thread and
\* the worker threads, and transcribe and the keyboard controller return
SpecFair ==
    /\ InitSession /\ [][NextFair]_vars
    /\ WF_vars(MainStep) /\ WF_vars(HotkeyStep) /\ WF_vars(CaptureStep)
    /\ WF_vars(WorkerStep)

\* ---------------------------------------------------------------------- C33
\* transcription n has been dispatched and its worker has not finished
Running(n) == \E w \in workers : w.w = n
\* _on_transcription_complete is entered with the result of transcription n
Delivered(n) == pc["ui"] = "tc_728" /\ arg.ev = "text" /\ arg.w = n

\* C33: under fair scheduling the result of every transcription dispatched
\* is delivered to _on_transcription_complete, and whenever the controller is
\* in Transcribing it later is in Listening or Standby.
C33_LeavesTranscribing ==
    /\ \A n \in 1..FairUtterances : Running(n) ~> Delivered(n)
    /\ (state = "transcribing") ~> (state \in {"listening", "standby"})

\* the handler is about to leave Transcribing for a transcription that
\* returned the empty string
C33_Witness ==
    /\ state = "transcribing" /\ pc["ui"] \in {"tc_733", "tc_735"}
    /\ arg.ev = "text" /\ arg.text = <<>>

\* ---------------------------------------------------------------------- C34
\* no handler is mid-execution on the main thread or on the hotkey thread
AtRest == \A t \in Threads : pc[t] = "idle"

\* C34 as claimed: whenever the controller is in Listening and no handler is
\* mid-execution, is_listening is true, also after a start() that failed to
\* open the stream.
C34_AsClaimed == (state = "listening" /\ AtRest) => is_listening

\* ---------------------------------------------------------------------- C35
\* C35 as claimed: whenever no handler is mid-execution and is_listening is
\* true, the controller is in Listening or Transcribing: the microphone is
\* never left capturing while the controller rests in Standby or Loading.
C35_AsClaimed ==
    (AtRest /\ is_listening) => state \in {"listening", "transcribing"}

\* ---------------------------------------------------------------------- C36
\* some call of inject or inject_fast is between its acceptance and the end
\* of its finally block
Injecting == \E t \in Threads : Typing(t)
\* thread t leaves inject or inject_fast after its call was accepted
InjectionExits(t) == Typing(t) /\ pc'[t] \notin TypingLabels
\* thread t passes the test of is_typing at the head of inject or inject_fast
InjectTested(t) == pc[t] \in {"in_64", "if_144"} /\ pc'[t] # pc[t]

\* C36: is_typing is true exactly while an accepted call of inject or
\* inject_fast is executing; every exit of an accepted call (completion,
\* abort, blank text, exception) leaves it false; and a call that tests the
\* flag while no injection is executing is accepted.
C36_TypingFlag ==
    [][/\ is_typing <=> Injecting
       /\ is_typing' <=> Injecting'
       /\ \A t \in Threads :
            /\ InjectionExits(t) => ~is_typing'
            /\ (InjectTested(t) /\ ~Injecting) =>
                  (pc'[t] \in TypingLabels /\ is_typing')]_vars

\* the second call is accepted and typing after the first one, made by the
\* other thread, ended with False (aborted or failed)
C36_Witness ==
    \E t, u \in Threads :
        /\ t # u /\ pc[u] = "idle" /\ inj_call[u].w = 1 /\ inj_call[u].rv = "false"
        /\ pc[t] = "in_100" /\ inj_call[t].w = 2 /\ is_typing
        /\ \E i \in 1..Len(typed) : typed[i].w = 2

\* ---------------------------------------------------------------------- C37
\* the call of thread t is accepted by inject or inject_fast
Accepted(t) == InjectTested(t) /\ pc'[t] \in TypingLabels
\* the characters typed for call w, in the order they were typed
RECURSIVE TypedBy(_, _)
TypedBy(seq, w) ==
    IF seq = <<>> THEN <<>>
    ELSE (IF Head(seq).w = w THEN <<Head(seq).c>> ELSE <<>>) \o TypedBy(Tail(seq), w)

\* C37: an inject that is accepted clears abort_flag, whatever abort() set
\* before; the flag is set again only by a call of abort(), and inject stops
\* typing only at a test that finds it set; a call that ends with the flag
\* clear and without a failure of the keyboard has typed its whole text.
C37_StaleAbort ==
    [][\A t \in Threads :
         /\ Accepted(t) => ~abort_flag'
         /\ (abort_flag' /\ ~abort_flag) => pc'[t] \in {pc[t], "sp_261"}
         /\ (pc[t] = "in_87" /\ pc'[t] = "in_114" /\ inj_call'[t].rv = "false") =>
               abort_flag
         /\ (InjectEnds(t) /\ ~abort_flag /\ inj_call[t].rv # "false") =>
               /\ inj_call[t].rv = "true"
               /\ TypedBy(typed, inj_call[t].w) = ToType(inj_call[t].text)]_vars

\* a call accepted with abort_flag set by an earlier abort() has typed its
\* whole text and is about to return True
C37_Witness ==
    \E t \in Threads :
        /\ pc[t] = "in_114" /\ inj_call[t].stale /\ inj_call[t].rv = "true"
        /\ ~abort_flag /\ inj_text = <<>>
        /\ Len(TypedBy(typed, inj_call[t].w)) >= 2
        /\ TypedBy(typed, inj_call[t].w) = ToType(inj_call[t].text)

\* ---------------------------------------------------------------------- C38
\* thread t is inside stop(), the handoff of the flushed chunk included
InStop(t) ==
    \/ pc[t] \in {"sp_261", "sp_267", "sp_272"}
    \/ (t = "ui" /\ ret = "sp_272")

\* C38: under fair scheduling every stop() returns, every capture callback
\* returns and the engine lock, once taken, is released; a thread that holds
\* the engine lock is never inside inject, where the injector lock is taken.
C38_NoDeadlock ==
    /\ \A t \in Threads : InStop(t) ~> ~InStop(t)
    /\ (cb_pc = "loop") ~> (cb_pc = "idle")
    /\ (lock # "free") ~> (lock = "free")
    /\ [](\A t \in Threads : lock = t => pc[t] \notin InjectLabels)

\* stop() on the main thread holds the engine lock, the worker of the chunk
\* it handed over already started, while the capture callback waits for the
\* lock with a frame to classify
C38_Witness ==
    /\ lock = "ui" /\ pc["ui"] = "pc_717" /\ ret = "sp_272" /\ workers # {}
    /\ cb_pc = "loop" /\ PendLen(pending_samples) >= vad_chunk_size
====
